---------------------------- MODULE Spec2Model ----------------------------
(***************************************************************************)
(* nylbot-merge: one invocation of executeAction (action.ts) running       *)
(* against a remote pull request that other parties mutate concurrently.   *)
(*                                                                         *)
(* An action of the invocation is one suspension point of executeAction:   *)
(* the awaited remote call (or sleep) returns, and the code runs on to the *)
(* next await or to its return.  pc names the await the invocation is      *)
(* suspended at.  The host's answers that no modelled party changes        *)
(* (fork flag, head ref, title, thread count, reviews, permission levels)  *)
(* are drawn when the call that reads them returns.                        *)
(***************************************************************************)
EXTENDS Integers, Sequences, FiniteSets, TLC

VARIABLES
    host,             \* the remote pull request (shared, mutable)
    mergedSha,        \* host: the head commit that was merged by this invocation's call, 0 if none
    pc,               \* the await executeAction is suspended at
    actor,            \* the event context and the actor's permission, while the code reads them
    mergeOptions,     \* parseCommand(commentBody)
    prData,           \* let prData: the most recently fetched snapshot
    prStateChecks,    \* validatePRState(prData) of the validation snapshot
    threadsCheck,     \* the conversations check
    reviewIdx,        \* position of the for-of loop over approvedReviews, 0 outside it
    review,           \* const review: the element the loop is at
    permissionCache,  \* Map<login, permission>
    validApprovals,   \* let validApprovals
    dismissFailures,  \* const dismissFailures: logins whose dismissal failed
    checks,           \* const checks: CheckResult[]
    approvalOverridden,
    mergeMethodResult,
    originalHeadSha,
    retries,
    comment,          \* the comment body (by its heading) handed to the pending postComment
    comments,         \* history: headings of the comments posted so far
    lastCall,         \* history: the remote call or sleep that completed last
    fetches,          \* history: number of fetchPullRequestData calls issued
    sleeps,           \* history: number of waitBeforeRetryMs sleeps completed
    mergeCalls,       \* history: arguments and outcome of each mergePullRequest call
    result,           \* the ActionResult returned
    commits,          \* const commits: the listing fetchPullRequestCommits returned
    commitBody,       \* let commitBody: the commit message body of the merge call
    core,             \* run(): the inputs of the action, its outputs, setFailed, the summary
    config,           \* run(): the ActionConfig parseConfig returned
    octokit           \* run(): whether the API client was created

vars == << host, mergedSha, pc, actor, mergeOptions, prData, prStateChecks, threadsCheck,
           reviewIdx, review, permissionCache, validApprovals,
           dismissFailures, checks, approvalOverridden, mergeMethodResult,
           originalHeadSha, retries, comment, comments, lastCall, fetches, sleeps,
           mergeCalls, result, commits, commitBody, core, config, octokit >>

\* The variables of run() outside executeAction
runVars == << core, config, octokit >>

\* The commit listing and the commit body built from it
bodyVars == << commits, commitBody >>

-----------------------------------------------------------------------------
(* Bounds of the model *)

MaxSha == 2               \* head commits are numbered 1..MaxSha
MaxThreads == 1           \* unresolved threads reported: 0..MaxThreads
MaxReviews == 2           \* approved reviews listed: at most MaxReviews
mergeableRetryCount == 2  \* config.mergeableRetryCount (main.ts admits 1..20)

-----------------------------------------------------------------------------
(* constants.ts *)

VALID_FLAGS == {"--override-approval-requirement"}
VALID_AUTHOR_ASSOCIATIONS == {"OWNER", "MEMBER", "COLLABORATOR"}
VALID_PERMISSIONS == {"admin", "maintain", "write"}

(* Values the trigger and the host may supply *)
AuthorAssociations ==
    {"OWNER", "MEMBER", "COLLABORATOR", "CONTRIBUTOR", "FIRST_TIME_CONTRIBUTOR", "NONE"}
Permissions == {"admin", "maintain", "write", "triage", "read", "none"}
ReviewerPermissions == {"write", "read", "none"}
Undefined == "undefined"
Null == "null"

\* A comment body is a sequence of tokens; "sp" is a run of spaces or tabs,
\* "nl" a newline.
CommentBodies ==
    { << "hello" >>,
      << "/nylbot", "sp", "merge" >>,
      << "sp", "/nylbot", "sp", "merge", "sp" >>,
      << "/nylbot", "sp", "merge", "sp", "--override-approval-requirement" >>,
      << "/nylbot", "sp", "merge", "sp", "now" >>,
      << "/nylbot", "sp", "merge", "nl" >>,
      << "/nylbot", "sp", "help" >>,
      << "/nylbot", "sp", "merge", "sp", "--force" >>,
      << "/xyzbot", "sp", "merge" >>,
      << "nl", "/nylbot", "sp", "merge" >> }

\* Tokens that read "/" + 2..5 characters + "bot"
BotTriggerTokens == {"/nylbot", "/xyzbot"}

\* Branch names are sequences of tokens; a prefix is a sequence of tokens.
releaseBranchPrefix == << "release/" >>
developBranch == << "develop" >>
syncBranchPrefix == << "fix/sync/" >>
HeadRefs == { << "release/", "1.0" >>, << "fix/sync/", "1" >>, << "feature/", "x" >> }
BaseRefs == { << "develop" >>, << "main" >>, << "release/", "1.0" >> }

Titles == { << "feat", ":", " ", "add", " ", "x" >>, << "Update", " ", "README" >> }
PrAuthor == "alice"
Logins == {"alice", "bob"}

\* (mergeable, mergeable_state) pairs the host reports
Mergeabilities ==
    { << Null, "unknown" >>, << "true", "clean" >>, << "true", "blocked" >>,
      << "false", "dirty" >> }

-----------------------------------------------------------------------------
(* validation.ts *)

startsWith(s, prefix) ==
    Len(prefix) <= Len(s) /\ SubSeq(s, 1, Len(prefix)) = prefix

isBot(userType) == userType = "Bot"

RECURSIVE skipSp(_)
skipSp(s) == IF s # << >> /\ Head(s) = "sp" THEN skipSp(Tail(s)) ELSE s

\* A trigger test that finds the trigger at the start of any line
hasBotMentionOnAnyLine(commentBody) ==
    \E i \in 1..Len(commentBody) :
        /\ commentBody[i] \in BotTriggerTokens
        /\ \A j \in 1..(i - 1) : commentBody[j] \in {"sp", "nl"}

\* BOT_TRIGGER_REGEX = /^[ \t]*\/.{2,5}bot/
hasBotMention(commentBody) ==
    LET rest == skipSp(commentBody)
    IN  rest # << >> /\ Head(rest) \in BotTriggerTokens

RECURSIVE splitFlags(_)
splitFlags(s) ==
    IF s = << >> THEN << >>
    ELSE IF Head(s) = "sp" THEN splitFlags(Tail(s))
    ELSE << Head(s) >> \o splitFlags(Tail(s))

NoCommand == [matched |-> FALSE, overrideApprovalRequirement |-> FALSE]

\* COMMAND_REGEX = /^[ \t]*\/nylbot[ \t]+merge(?:[ \t]+([^\n]*))?[ \t]*$/
\* A parser that skips the flags it does not know
parseCommandIgnoringUnknownFlags(commentBody) ==
    LET a == skipSp(commentBody)
        b == IF a # << >> /\ Head(a) = "/nylbot" THEN Tail(a) ELSE << "nomatch" >>
        c == IF b # << >> /\ Head(b) = "sp" THEN skipSp(b) ELSE << "nomatch" >>
        d == IF c # << >> /\ Head(c) = "merge" THEN Tail(c) ELSE << "nomatch" >>
        regexMatch ==
            /\ d = << >> \/ Head(d) = "sp"
            /\ \A i \in 1..Len(d) : d[i] # "nl"
        flags == splitFlags(d)
    IN  IF ~regexMatch THEN NoCommand
        ELSE [matched |-> TRUE,
              overrideApprovalRequirement |->
                  \E i \in 1..Len(flags) : flags[i] = "--override-approval-requirement"]

parseCommand(commentBody) ==
    LET a == skipSp(commentBody)
        b == IF a # << >> /\ Head(a) = "/nylbot" THEN Tail(a) ELSE << "nomatch" >>
        c == IF b # << >> /\ Head(b) = "sp" THEN skipSp(b) ELSE << "nomatch" >>
        d == IF c # << >> /\ Head(c) = "merge" THEN Tail(c) ELSE << "nomatch" >>
        regexMatch ==
            /\ d = << >> \/ Head(d) = "sp"
            /\ \A i \in 1..Len(d) : d[i] # "nl"
        flags == splitFlags(d)
    IN  IF ~regexMatch THEN NoCommand
        ELSE IF \E i \in 1..Len(flags) : flags[i] \notin VALID_FLAGS THEN NoCommand
        ELSE [matched |-> TRUE,
              overrideApprovalRequirement |->
                  \E i \in 1..Len(flags) : flags[i] = "--override-approval-requirement"]

hasValidAuthorAssociation(association) == association \in VALID_AUTHOR_ASSOCIATIONS

\* A permission test that also admits read access
hasValidPermissionOrRead(permission) == permission \in VALID_PERMISSIONS \cup {"read"}

hasValidPermission(permission) == permission \in VALID_PERMISSIONS

\* constants.ts 57-70.  A title is the sequence of its tokens: a type word,
\* "(", ")", "!", ":", a whitespace character, or any other run of
\* non-whitespace characters; a title has one line.
CONVENTIONAL_COMMIT_TYPES ==
    {"build", "chore", "ci", "docs", "feat", "fix", "perf", "refactor", "revert",
     "style", "test", "ux"}

\* \s within one line
IsWhitespace(c) == c \in {" ", "\t"}

\* The positions after (\([^)!]+\))?, the type being the first token
AfterScope(title) ==
    {2} \cup { q + 1 : q \in { q \in 4..Len(title) :
                                 /\ title[2] = "("
                                 /\ title[q] = ")"
                                 /\ \A k \in 3..(q - 1) : title[k] \notin {")", "!"} } }

\* The positions after !?
AfterMarker(title) ==
    AfterScope(title)
        \cup { p + 1 : p \in { p \in AfterScope(title) : p <= Len(title) /\ title[p] = "!" } }

\* constants.ts 81-83, validation.ts 30-32: CONVENTIONAL_COMMIT_REGEX.test(title),
\* ^(types)(\([^)!]+\))?!?:\s*\S.*$
isConventionalCommitTitle(title) ==
    /\ Len(title) >= 1
    /\ title[1] \in CONVENTIONAL_COMMIT_TYPES
    /\ \E p \in AfterMarker(title) :
          /\ p <= Len(title)
          /\ title[p] = ":"
          /\ \E r \in (p + 1)..Len(title) :
                /\ ~IsWhitespace(title[r])
                /\ \A k \in (p + 1)..(r - 1) : IsWhitespace(title[k])

\* A resolver that takes the develop branch name as a prefix
determineMergeMethodDevelopPrefix(headRef, baseRef) ==
    IF startsWith(headRef, releaseBranchPrefix)
        THEN [method |-> "merge", reason |-> "head is a release branch"]
    ELSE IF startsWith(headRef, syncBranchPrefix)
        THEN [method |-> "merge", reason |-> "head is a sync branch"]
    ELSE IF startsWith(baseRef, releaseBranchPrefix)
        THEN [method |-> "squash", reason |-> "base is a release branch"]
    ELSE IF startsWith(baseRef, developBranch)
        THEN [method |-> "squash", reason |-> "base is develop"]
    ELSE [method |-> "merge", reason |-> "default"]

\* A resolver that tests the base-branch rules before the head-branch rules
determineMergeMethodBaseFirst(headRef, baseRef) ==
    IF startsWith(baseRef, releaseBranchPrefix)
        THEN [method |-> "squash", reason |-> "base is a release branch"]
    ELSE IF baseRef = developBranch
        THEN [method |-> "squash", reason |-> "base is develop"]
    ELSE IF startsWith(headRef, releaseBranchPrefix)
        THEN [method |-> "merge", reason |-> "head is a release branch"]
    ELSE IF startsWith(headRef, syncBranchPrefix)
        THEN [method |-> "merge", reason |-> "head is a sync branch"]
    ELSE [method |-> "merge", reason |-> "default"]

determineMergeMethod(headRef, baseRef) ==
    IF startsWith(headRef, releaseBranchPrefix)
        THEN [method |-> "merge", reason |-> "head is a release branch"]
    ELSE IF startsWith(headRef, syncBranchPrefix)
        THEN [method |-> "merge", reason |-> "head is a sync branch"]
    ELSE IF startsWith(baseRef, releaseBranchPrefix)
        THEN [method |-> "squash", reason |-> "base is a release branch"]
    ELSE IF baseRef = developBranch
        THEN [method |-> "squash", reason |-> "base is develop"]
    ELSE [method |-> "merge", reason |-> "default"]

Check(name, passed, details, optional) ==
    [name |-> name, passed |-> passed, details |-> details, optional |-> optional]

\* A readiness check that reports only the first reason that applies
validatePRStateFirstReason(pr) ==
    LET isOpen == pr.state = "open"
        isUnlocked == ~pr.locked
        isNotDraft == ~pr.draft
        failureReasons ==
            IF ~isOpen THEN << "currently closed" >>
            ELSE IF ~isUnlocked THEN << "currently locked" >>
            ELSE IF ~isNotDraft THEN << "currently a draft" >>
            ELSE << >>
    IN  << Check("PR is ready for review",
                 isOpen /\ isUnlocked /\ isNotDraft,
                 failureReasons,
                 FALSE) >>

\* details is the sequence of the parts join(', ') concatenates; << >> is "no details"
validatePRState(pr) ==
    LET isOpen == pr.state = "open"
        isUnlocked == ~pr.locked
        isNotDraft == ~pr.draft
        failureReasons ==
            (IF ~isOpen THEN << "currently closed" >> ELSE << >>)
            \o (IF ~isUnlocked THEN << "currently locked" >> ELSE << >>)
            \o (IF ~isNotDraft THEN << "currently a draft" >> ELSE << >>)
    IN  << Check("PR is ready for review",
                 isOpen /\ isUnlocked /\ isNotDraft,
                 failureReasons,
                 FALSE) >>

\* A gate that requires every check, optional or not
AllPassedStrict(cs) == \A i \in 1..Len(cs) : cs[i].passed

AllPassed(cs) == \A i \in 1..Len(cs) : ~cs[i].optional => cs[i].passed

-----------------------------------------------------------------------------
(* The remote pull request and the values executeAction holds *)

NoLogin == "undefined"

NoPrData ==
    [state |-> "none", locked |-> FALSE, draft |-> FALSE, merged |-> FALSE,
     mergeable |-> Null, mergeableState |-> "none", headSha |-> 0,
     headRef |-> << >>, baseRef |-> << >>, author |-> "none", isFork |-> FALSE,
     title |-> << >>]

NoActor == [eventName |-> Undefined, isPullRequest |-> FALSE, commentBody |-> << >>,
            userType |-> Undefined, authorAssociation |-> Undefined,
            permission |-> Undefined]
NoResult == [status |-> "none", message |-> "none", mergeMethod |-> Undefined]
NoComment == [heading |-> "none", detail |-> "", returns |-> NoResult]
NoCheck == Check("none", FALSE, << >>, FALSE)
NoMethod == [method |-> "none", reason |-> "none"]
NoCache == [l \in Logins |-> Undefined]

Result(status, message) ==
    [status |-> status, message |-> message, mergeMethod |-> Undefined]

\* fetchPullRequestData: the fields of the response, from the host's PR
\* A snapshot that never reports the PR as merged
SnapshotNeverMerged(h, isFork, headRef, title) ==
    [state |-> h.state, locked |-> h.locked, draft |-> h.draft, merged |-> FALSE,
     mergeable |-> h.mergeable, mergeableState |-> h.mergeableState,
     headSha |-> h.headSha, headRef |-> headRef, baseRef |-> h.baseRef,
     author |-> PrAuthor, isFork |-> isFork, title |-> title]

Snapshot(h, isFork, headRef, title) ==
    [state |-> h.state, locked |-> h.locked, draft |-> h.draft, merged |-> h.merged,
     mergeable |-> h.mergeable, mergeableState |-> h.mergeableState,
     headSha |-> h.headSha, headRef |-> headRef, baseRef |-> h.baseRef,
     author |-> PrAuthor, isFork |-> isFork, title |-> title]

\* pr.head.repo before the first fetch has read it
NotRead == [read |-> FALSE, exists |-> FALSE, fork |-> FALSE, ownerId |-> 0]

\* pr.head.repo: null (the head repository was deleted), or a repository with
\* its fork flag and its owner
HeadRepos ==
    { [read |-> TRUE, exists |-> FALSE, fork |-> FALSE, ownerId |-> 0] }
    \cup [read : {TRUE}, exists : {TRUE}, fork : BOOLEAN, ownerId : {1, 2}]

\* pr.base.repo.owner.id
BaseOwnerId == 1

\* A fork test that takes no PR for a fork
isForkNever(headRepo, baseOwnerId) == FALSE

\* A fork test that reads the fork flag only
isForkByFlag(headRepo, baseOwnerId) == headRepo.exists /\ headRepo.fork

\* github-api.ts 111-113: the fork flag is set, or the owners differ
\* (undefined, here 0, is the owner of a head repository that is null)
isFork(headRepo, baseOwnerId) ==
    \/ headRepo.exists /\ headRepo.fork
    \/ (IF headRepo.exists THEN headRepo.ownerId ELSE 0) # baseOwnerId

\* The APPROVED reviews the host may list: a review of a commit the head branch
\* has had, by the PR's author, by another user, or by a deleted account
Reviews(head) ==
    [login : Logins \cup {NoLogin}, commit_id : 1..head]

NoReview == [login |-> NoLogin, commit_id |-> 0]

-----------------------------------------------------------------------------
(* run(): inputs, configuration, outputs (main.ts) *)

\* What setFailed was called with; the text after 'nylbot-merge action failed: '
\* is kept by its parts
NoFailure == [error |-> "none", input |-> "", quoted |-> << >>, number |-> 0,
              min |-> 0, max |-> 0]

NoOutputs == [result |-> "none", merge_method |-> "none"]

NoConfig == [mergeableRetryCount |-> 0, mergeableRetryInterval |-> 0]

Digits == << "0", "1", "2", "3", "4", "5", "6", "7", "8", "9" >>

IsDigit(c) == \E i \in 1..Len(Digits) : Digits[i] = c

DigitValue(c) == (CHOOSE i \in 1..Len(Digits) : Digits[i] = c) - 1

NaN == [nan |-> TRUE, n |-> 0]

\* The value of the longest prefix of digits, read after the digits n stands for
RECURSIVE digitsPrefix(_, _, _)
digitsPrefix(string, n, any) ==
    IF string # << >> /\ IsDigit(Head(string))
        THEN digitsPrefix(Tail(string), 10 * n + DigitValue(Head(string)), TRUE)
        ELSE IF any THEN [nan |-> FALSE, n |-> n] ELSE NaN

\* parseInt(string, 10) on a string without leading white space: an optional
\* sign, then the longest prefix of decimal digits; what follows is ignored
parseInt(string) ==
    IF string # << >> /\ Head(string) = "-"
        THEN LET v == digitsPrefix(Tail(string), 0, FALSE)
             IN  IF v.nan THEN NaN ELSE [nan |-> FALSE, n |-> 0 - v.n]
    ELSE IF string # << >> /\ Head(string) = "+"
        THEN digitsPrefix(Tail(string), 0, FALSE)
    ELSE digitsPrefix(string, 0, FALSE)

\* main.ts 67-68: core.getInput(name) || default
OrDefault(input, default) == IF input = << >> THEN default ELSE input

\* main.ts 66-102: the configuration, or the Error parseConfig throws
parseConfig(inputs) ==
    LET retryCountInput == OrDefault(inputs.mergeableRetryCount, << "5" >>)
        retryIntervalInput == OrDefault(inputs.mergeableRetryInterval, << "1", "0" >>)
        mergeableRetryCountParsed == parseInt(retryCountInput)
        mergeableRetryInterval == parseInt(retryIntervalInput)
    IN  IF mergeableRetryCountParsed.nan
            THEN [throws |-> TRUE, config |-> NoConfig,
                  error |-> [error |-> "is not a valid integer",
                             input |-> "mergeable-retry-count",
                             quoted |-> retryCountInput, number |-> 0,
                             min |-> 1, max |-> 20]]
        ELSE IF mergeableRetryCountParsed.n < 1 \/ mergeableRetryCountParsed.n > 20
            THEN [throws |-> TRUE, config |-> NoConfig,
                  error |-> [error |-> "is out of range",
                             input |-> "mergeable-retry-count",
                             quoted |-> << >>, number |-> mergeableRetryCountParsed.n,
                             min |-> 1, max |-> 20]]
        ELSE IF mergeableRetryInterval.nan
            THEN [throws |-> TRUE, config |-> NoConfig,
                  error |-> [error |-> "is not a valid integer",
                             input |-> "mergeable-retry-interval",
                             quoted |-> retryIntervalInput, number |-> 0,
                             min |-> 1, max |-> 60]]
        ELSE IF mergeableRetryInterval.n < 1 \/ mergeableRetryInterval.n > 60
            THEN [throws |-> TRUE, config |-> NoConfig,
                  error |-> [error |-> "is out of range",
                             input |-> "mergeable-retry-interval",
                             quoted |-> << >>, number |-> mergeableRetryInterval.n,
                             min |-> 1, max |-> 60]]
        ELSE [throws |-> FALSE,
              config |-> [mergeableRetryCount |-> mergeableRetryCountParsed.n,
                          mergeableRetryInterval |-> mergeableRetryInterval.n],
              error |-> NoFailure]

\* Outputs with merge_method set for every result
SetOutputsWithMethodAlways(c, r) ==
    [c EXCEPT !.outputs = [result |-> r.status, merge_method |-> r.mergeMethod]]

\* main.ts 145-148: setOutput('result', ...) and, with a merge method, setOutput('merge_method', ...)
SetOutputs(c, r) ==
    [c EXCEPT !.outputs = [result |-> r.status,
                           merge_method |-> IF r.mergeMethod = Undefined THEN "none"
                                            ELSE r.mergeMethod]]

\* main.ts 165-173: the catch of run() calls setFailed
SetFailed(c, error) == [c EXCEPT !.failed = error]

\* What was thrown by a remote call that rejected: the host's error, whose text
\* is not told apart
HttpError == [NoFailure EXCEPT !.error = "HttpError"]

\* The inputs under which executeAction is followed: the retry count of this model
\* (main.ts 138-143: run() has parsed them, created the client and awaits executeAction)
RunningCore ==
    [inputs |-> [mergeableRetryCount |-> << ToString(mergeableRetryCount) >>,
                 mergeableRetryInterval |-> << >>],
     failed |-> NoFailure, outputs |-> NoOutputs, summary |-> "none"]

Init ==
    /\ host \in { h \in [headSha : {1}, mergeable : {Null, "true", "false"},
                         mergeableState : {"clean", "dirty", "blocked", "unknown"},
                         merged : BOOLEAN, state : {"open", "closed"},
                         locked : BOOLEAN, draft : BOOLEAN, baseRef : BaseRefs,
                         headRepo : {NotRead}] :
                    /\ << h.mergeable, h.mergeableState >> \in Mergeabilities
                    /\ h.merged => h.state = "closed" }
    /\ mergedSha = 0
    /\ pc = "start"
    /\ actor = NoActor
    /\ mergeOptions = NoCommand
    /\ prData = NoPrData
    /\ prStateChecks = << >>
    /\ threadsCheck = NoCheck
    /\ reviewIdx = 0
    /\ review = NoReview
    /\ permissionCache = NoCache
    /\ validApprovals = 0
    /\ dismissFailures = << >>
    /\ checks = << >>
    /\ approvalOverridden = FALSE
    /\ mergeMethodResult = NoMethod
    /\ originalHeadSha = 0
    /\ retries = 0
    /\ comment = NoComment
    /\ comments = << >>
    /\ lastCall = "none"
    /\ fetches = 0
    /\ sleeps = 0
    /\ mergeCalls = << >>
    /\ result = NoResult
    /\ commits = << >>
    /\ commitBody = << >>
    /\ core = RunningCore
    /\ config = parseConfig(core.inputs).config
    /\ octokit = TRUE

-----------------------------------------------------------------------------
(* The commit message of the merge call (action.ts 380-441)                *)

\* The most commits a listing of the PR holds
MaxCommits == 3

\* A line of the commit body: what it starts with, its text, and the address
\* of a co-author line
Line(kind, text, email) == [kind |-> kind, text |-> text, email |-> email]

\* The empty line between two blocks joined with '\n\n'
BlankLine == Line("", "", "")

\* action.ts 385: `Merged-by: nylbot-merge (on behalf of @${actor})`
MergedByLine == Line("Merged-by:", "nylbot-merge (on behalf of @actor)", "")

\* action.ts 386-388: the marker of an overridden approval requirement
ExceptionalMergeLine ==
    Line("EXCEPTIONAL MERGE:",
         "Approval requirement overridden via --override-approval-requirement", "")

\* Metadata that always carries the marker
additionalMessagesAlwaysExceptional(overridden) ==
    << MergedByLine, BlankLine, ExceptionalMergeLine >>

\* action.ts 385-388: let additionalMessages
additionalMessages(overridden) ==
    << MergedByLine >>
        \o (IF overridden THEN << BlankLine, ExceptionalMergeLine >> ELSE << >>)

\* The text of a title, from its tokens
RECURSIVE Text(_)
Text(title) == IF Len(title) = 0 THEN "" ELSE Head(title) \o Text(Tail(title))

\* action.ts 395: the commit body of a merge commit
mergeCommitBody(title, additional) ==
    << Line("", Text(title), ""), BlankLine >> \o additional

\* c.commit.message, by its lines: no message, a subject, a subject and a
\* body, and a message whose first line is empty
CommitMessages ==
    { << >>, << "feat: a" >>, << "fix: b", "details" >>, << "", "details" >> }

\* c.commit.author is null
NoAuthor == [present |-> FALSE, name |-> "", email |-> ""]

\* c.commit.author: null, two people, a name under a second address, and a
\* name without an address
CommitAuthors ==
    { NoAuthor,
      [present |-> TRUE, name |-> "Bob", email |-> "bob@example.com"],
      [present |-> TRUE, name |-> "Alice", email |-> "alice@example.com"],
      [present |-> TRUE, name |-> "Bob", email |-> "bob@users.noreply"],
      [present |-> TRUE, name |-> "Carol", email |-> ""] }

Commits == [message : CommitMessages, author : CommitAuthors]

\* The listings of at most n commits (github-api.ts 263-280)
CommitListings(n) == UNION { [1..k -> Commits] : k \in 0..n }

\* action.ts 407-408: (c.commit.message || '').split('\n')[0]
firstLine(message) == IF Len(message) = 0 THEN "" ELSE message[1]

\* action.ts 404-411: const commitTitles, the map and the filter
RECURSIVE commitTitles(_)
commitTitles(cs) ==
    IF Len(cs) = 0 THEN << >>
    ELSE (IF firstLine(Head(cs).message) # ""
            THEN << Line("*", firstLine(Head(cs).message), "") >>
            ELSE << >>)
         \o commitTitles(Tail(cs))

\* Array.prototype.includes
Includes(array, x) == \E i \in 1..Len(array) : array[i] = x

\* Co-author lines that repeat an author for each of their commits
RECURSIVE coAuthorsWithDuplicates(_)
coAuthorsWithDuplicates(cs) ==
    IF Len(cs) = 0 THEN << >>
    ELSE LET author == Head(cs).author
         IN  (IF author.present /\ author.name # "" /\ author.email # ""
                THEN << Line("Co-authored-by:", author.name, author.email) >>
                ELSE << >>)
             \o coAuthorsWithDuplicates(Tail(cs))

\* action.ts 416-425: the body of the forEach, from the i-th commit on
RECURSIVE coAuthorsFrom(_, _, _)
coAuthorsFrom(cs, i, acc) ==
    IF i > Len(cs) THEN acc
    ELSE LET author == cs[i].author
             authorLine == Line("Co-authored-by:", author.name, author.email)
         IN  coAuthorsFrom(cs, i + 1,
                           IF /\ author.present /\ author.name # "" /\ author.email # ""
                              /\ ~Includes(acc, authorLine)
                             THEN Append(acc, authorLine)
                             ELSE acc)

\* action.ts 415-425: const coAuthors
coAuthors(cs) == coAuthorsFrom(cs, 1, << >>)

\* action.ts 428-438: const bodyParts
bodyParts(cs, additional) ==
    (IF Len(commitTitles(cs)) > 0 THEN << commitTitles(cs) >> ELSE << >>)
        \o (IF Len(coAuthors(cs)) > 0 THEN << coAuthors(cs) >> ELSE << >>)
        \o << additional >>

\* bodyParts.join('\n\n'), each part being lines joined with '\n'
RECURSIVE join(_)
join(parts) ==
    IF Len(parts) = 0 THEN << >>
    ELSE IF Len(parts) = 1 THEN parts[1]
    ELSE parts[1] \o << BlankLine >> \o join(Tail(parts))

\* action.ts 440: the commit body of a squash commit
squashCommitBody(cs, additional) == join(bodyParts(cs, additional))

\* The spec's example: commits by Bob, Alice and Bob again
BobAliceBob ==
    << [message |-> << "feat: a" >>,
        author |-> [present |-> TRUE, name |-> "Bob", email |-> "bob@example.com"]],
       [message |-> << "fix: b", "details" >>,
        author |-> [present |-> TRUE, name |-> "Alice", email |-> "alice@example.com"]],
       [message |-> << "feat: a" >>,
        author |-> [present |-> TRUE, name |-> "Bob", email |-> "bob@example.com"]] >>

\* The listings the whole invocation is explored with: none, one commit, and
\* the three commits of two authors
ListedCommits == { << >>, SubSeq(BobAliceBob, 1, 1), BobAliceBob }

-----------------------------------------------------------------------------
(* executeAction, steps 1-2: event, command and authorization *)

Returned == pc \in {"done", "threw"}

Log(call) ==
    /\ lastCall' = call
    /\ fetches' = IF call = "fetchPullRequestData" THEN fetches + 1 ELSE fetches
    /\ sleeps' = IF call = "waitBeforeRetryMs" THEN sleeps + 1 ELSE sleeps

PostWith(heading, detail, returns) ==
    /\ pc' = "postComment"
    /\ comment' = [heading |-> heading, detail |-> detail, returns |-> returns]

\* A comment whose text has no part that varies in this model
Post(heading, returns) == PostWith(heading, "", returns)

\* action.ts 79-96: the four skip tests, then the await of addReaction.
\* parseCommand is pure and reads only commentBody: its value is computed here
\* and kept, the body is not.
Start ==
    /\ pc = "start"
    /\ \E eventName \in {"issue_comment", "pull_request"}, isPullRequest \in BOOLEAN,
          userType \in {"User", "Bot"}, commentBody \in CommentBodies :
          /\ actor' = [actor EXCEPT !.userType = userType, !.eventName = eventName,
                                    !.isPullRequest = isPullRequest,
                                    !.commentBody = commentBody]
          /\ IF eventName # "issue_comment"
               THEN /\ result' = Result("skipped", "This action only runs on issue_comment events")
                    /\ pc' = "done"
                    /\ UNCHANGED mergeOptions
             ELSE IF ~isPullRequest
               THEN /\ result' = Result("skipped", "Comment is not on a PR, skipping")
                    /\ pc' = "done"
                    /\ UNCHANGED mergeOptions
             ELSE IF isBot(userType)
               THEN /\ result' = Result("skipped", "Comment is from a bot")
                    /\ pc' = "done"
                    /\ UNCHANGED mergeOptions
             ELSE IF ~hasBotMention(commentBody)
               THEN /\ result' = Result("skipped", "Command not matched")
                    /\ pc' = "done"
                    /\ UNCHANGED mergeOptions
             ELSE /\ pc' = "addReaction"
                  /\ mergeOptions' = parseCommand(commentBody)
                  /\ UNCHANGED result
    /\ UNCHANGED << host, mergedSha, prData, prStateChecks, threadsCheck, reviewIdx, review, permissionCache, validApprovals, dismissFailures,
                    checks, approvalOverridden, mergeMethodResult, originalHeadSha,
                    retries, comment, comments, lastCall, fetches, sleeps, mergeCalls >>
    /\ core' = IF pc' = "done" THEN SetOutputs(core, result') ELSE core
    /\ UNCHANGED << config, octokit >>
    /\ UNCHANGED bodyVars

\* How a call whose rejection is caught in github-api.ts is logged
Rejected(call) ==
    CASE call = "addReaction" -> "addReaction rejected"
      [] call = "getCollaboratorPermission" -> "getCollaboratorPermission rejected"

\* A permission lookup that passes for 'write' when the host call rejects
getCollaboratorPermissionFailingOpen(rejects, permission) ==
    IF rejects THEN "write" ELSE permission

\* github-api.ts 71-87: the permission the host gives, 'none' when the host call rejects
getCollaboratorPermission(rejects, permission) ==
    IF rejects THEN "none" ELSE permission

\* github-api.ts 166-186: true, false when the host call rejects
dismissReview(rejects) == ~rejects

\* action.ts 98-128: addReaction returns (its failure is swallowed, github-api.ts 26-35)
AddReaction ==
    /\ pc = "addReaction"
    /\ \E rejects \in BOOLEAN :
          Log(IF rejects THEN Rejected("addReaction") ELSE "addReaction")
    /\ \E authorAssociation \in AuthorAssociations :
          /\ actor' = [actor EXCEPT !.authorAssociation = authorAssociation]
          /\ IF ~mergeOptions.matched
               THEN Post("Unrecognized command", Result("skipped", "Command not recognized"))
             ELSE IF ~hasValidAuthorAssociation(authorAssociation)
               THEN Post("Permission denied", Result("failed", "Invalid author association"))
             ELSE /\ pc' = "getCollaboratorPermission"
                  /\ UNCHANGED comment
    /\ UNCHANGED << host, mergedSha, mergeOptions, prData, prStateChecks, threadsCheck,
                    reviewIdx, review, permissionCache, validApprovals,
                    dismissFailures, checks, approvalOverridden, mergeMethodResult,
                    originalHeadSha, retries, comments, mergeCalls, result >>
    /\ UNCHANGED runVars
    /\ UNCHANGED bodyVars

\* action.ts 128-144: the actor's permission level ('none' when the lookup fails,
\* github-api.ts 77-86)
GetActorPermission ==
    /\ pc = "getCollaboratorPermission"
    /\ \E rejects \in BOOLEAN, answer \in Permissions :
          LET permission == getCollaboratorPermission(rejects, answer)
          IN
          /\ Log(IF rejects THEN Rejected("getCollaboratorPermission")
                            ELSE "getCollaboratorPermission")
          /\ actor' = [actor EXCEPT !.permission = permission]
          /\ IF ~hasValidPermission(permission)
               THEN Post("Permission denied", Result("failed", "Insufficient permissions"))
             ELSE /\ pc' = "fetchPullRequestData"
                  /\ UNCHANGED comment
    /\ UNCHANGED << host, mergedSha, mergeOptions, prData, prStateChecks, threadsCheck,
                    reviewIdx, review, permissionCache, validApprovals,
                    dismissFailures, checks, approvalOverridden, mergeMethodResult,
                    originalHeadSha, retries, comments, mergeCalls, result >>
    /\ UNCHANGED runVars
    /\ UNCHANGED bodyVars

\* action.ts 144-173: the validation snapshot
FetchPullRequestData ==
    /\ pc = "fetchPullRequestData"
    /\ Log("fetchPullRequestData")
    /\ \E headRepo \in HeadRepos, headRef \in HeadRefs, title \in Titles :
          LET snap == Snapshot(host, isFork(headRepo, BaseOwnerId), headRef, title)
          IN  /\ prData' = snap
              /\ host' = [host EXCEPT !.headRepo = headRepo]
              /\ actor' = NoActor
              /\ IF snap.isFork
                   THEN /\ Post("Fork PR not supported", Result("failed", "Fork PR not supported"))
                        /\ UNCHANGED prStateChecks
                 ELSE IF snap.merged
                   THEN /\ Post("Already merged", Result("already_merged", "PR already merged"))
                        /\ UNCHANGED prStateChecks
                 ELSE /\ prStateChecks' = validatePRState(snap)
                      /\ pc' = "countUnresolvedThreads"
                      /\ UNCHANGED comment
    /\ UNCHANGED << mergedSha, mergeOptions, threadsCheck, reviewIdx, review, permissionCache, validApprovals, dismissFailures, checks,
                    approvalOverridden, mergeMethodResult, originalHeadSha, retries,
                    comments, mergeCalls, result >>
    /\ UNCHANGED runVars
    /\ UNCHANGED bodyVars

\* action.ts 173-181
CountUnresolvedThreads ==
    /\ pc = "countUnresolvedThreads"
    /\ Log("countUnresolvedThreads")
    /\ \E unresolvedCount \in 0..MaxThreads :
          threadsCheck' = Check("All review conversations are resolved",
                                unresolvedCount = 0,
                                IF unresolvedCount > 0 THEN << ToString(unresolvedCount), "unresolved" >>
                                                       ELSE << >>,
                                FALSE)
    /\ pc' = "fetchApprovedReviews"
    /\ UNCHANGED << host, mergedSha, actor, mergeOptions, prData, prStateChecks, reviewIdx, review, permissionCache, validApprovals, dismissFailures, checks,
                    approvalOverridden, mergeMethodResult, originalHeadSha, retries,
                    comment, comments, mergeCalls, result >>
    /\ UNCHANGED runVars
    /\ UNCHANGED bodyVars

-----------------------------------------------------------------------------
(* executeAction, step 3: approvals and the check gate *)

\* A loop body without the test for the PR's own author
ReviewOutcomeCountingAuthor(r, cache) ==
    IF r.login = NoLogin THEN "continue"
    ELSE IF cache[r.login] = Undefined THEN "getReviewerPermission"
    ELSE IF ~hasValidPermission(cache[r.login]) THEN "continue"
    ELSE IF r.commit_id # prData.headSha THEN "dismissReview"
    ELSE "valid"

\* A loop body that skips a stale approval without dismissing it
ReviewOutcomeIgnoringStale(r, cache) ==
    IF r.login = prData.author THEN "continue"
    ELSE IF r.login = NoLogin THEN "continue"
    ELSE IF cache[r.login] = Undefined THEN "getReviewerPermission"
    ELSE IF ~hasValidPermission(cache[r.login]) THEN "continue"
    ELSE IF r.commit_id # prData.headSha THEN "continue"
    ELSE "valid"

\* A loop body that looks the permission up again while the cached one is
\* insufficient
ReviewOutcomeRetryingLookup(r, cache) ==
    IF r.login = prData.author THEN "continue"
    ELSE IF r.login = NoLogin THEN "continue"
    ELSE IF cache[r.login] = Undefined \/ ~hasValidPermission(cache[r.login])
        THEN "getReviewerPermission"
    ELSE IF r.commit_id # prData.headSha THEN "dismissReview"
    ELSE "valid"

\* action.ts 188-228: one iteration of the for-of loop on review r, up to its
\* first await (a permission lookup or a dismissal) or to its end
ReviewOutcome(r, cache) ==
    IF r.login = prData.author THEN "continue"
    ELSE IF r.login = NoLogin THEN "continue"
    ELSE IF cache[r.login] = Undefined THEN "getReviewerPermission"
    ELSE IF ~hasValidPermission(cache[r.login]) THEN "continue"
    ELSE IF r.commit_id # prData.headSha THEN "dismissReview"
    ELSE "valid"

\* An approval check that is optional whenever the flag was supplied
ApprovalCheckFlagOnly(approvals, override) ==
    LET approvalCheckPassed == approvals >= 1
    IN  Check("At least one valid approval from another user",
              approvalCheckPassed,
              IF approvalCheckPassed THEN << >>
              ELSE IF override
                  THEN << "approval requirement overridden", "no valid approvals found" >>
              ELSE << "no valid approvals found" >>,
              override)

\* action.ts 239-263
ApprovalCheck(approvals, override) ==
    LET approvalCheckPassed == approvals >= 1
        overridden == override /\ ~approvalCheckPassed
    IN  Check("At least one valid approval from another user",
              approvalCheckPassed,
              IF approvalCheckPassed THEN << >>
              ELSE IF overridden
                  THEN << "approval requirement overridden", "no valid approvals found" >>
              ELSE << "no valid approvals found" >>,
              overridden)

\* A mergeable-state check that lets the state 'unknown' pass
MergeableStateCheckAllowingUnknown(pr) ==
    Check("Mergeable state is clean",
          pr.mergeableState \in {"clean", "unknown"},
          IF pr.mergeableState \notin {"clean", "unknown"}
              THEN << pr.mergeableState >> ELSE << >>,
          FALSE)

\* action.ts 266-271
MergeableStateCheck(pr) ==
    Check("Mergeable state is clean",
          pr.mergeableState = "clean",
          IF pr.mergeableState # "clean" THEN << pr.mergeableState >> ELSE << >>,
          FALSE)

\* A title check that is required
ConventionalCommitsCheckRequired(pr) ==
    Check("PR title follows Conventional Commits",
          isConventionalCommitTitle(pr.title),
          IF ~isConventionalCommitTitle(pr.title)
              THEN << "title does not follow conventional format" >> ELSE << >>,
          FALSE)

\* action.ts 274-280
ConventionalCommitsCheck(pr) ==
    Check("PR title follows Conventional Commits",
          isConventionalCommitTitle(pr.title),
          IF ~isConventionalCommitTitle(pr.title)
              THEN << "title does not follow conventional format" >> ELSE << >>,
          TRUE)

\* A check list in which the flag makes every check optional
ChecksForOverrideAll(approvals, override) ==
    LET cs == prStateChecks
              \o << threadsCheck,
                    ApprovalCheck(approvals, override),
                    MergeableStateCheck(prData),
                    ConventionalCommitsCheck(prData) >>
    IN  [i \in 1..Len(cs) |-> [cs[i] EXCEPT !.optional = @ \/ override]]

\* action.ts 239-292: the check list, by the override flag of the command
ChecksFor(approvals, override) ==
    prStateChecks
    \o << threadsCheck,
          ApprovalCheck(approvals, override),
          MergeableStateCheck(prData),
          ConventionalCommitsCheck(prData) >>

\* action.ts 286-292
BuildChecks(approvals) == ChecksFor(approvals, mergeOptions.overrideApprovalRequirement)

\* action.ts 238-321: from the approval check to the await of the checks comment
Gate(approvals) ==
    /\ approvalOverridden' = (mergeOptions.overrideApprovalRequirement /\ ~(approvals >= 1))
    /\ mergeMethodResult' = determineMergeMethod(prData.headRef, prData.baseRef)
    /\ checks' = BuildChecks(approvals)
    /\ IF ~AllPassed(BuildChecks(approvals))
         THEN Post("Merge checks failed", Result("failed", "Merge checks failed"))
         ELSE Post("Merge checks passed", NoResult)

\* An end of the loop that posts the warning whether or not a dismissal failed
AfterReviewsAlwaysWarns(approvals, failures) ==
    /\ reviewIdx' = 0
    /\ review' = NoReview
    /\ validApprovals' = approvals
    /\ Post("Stale approval dismiss failures", NoResult)
    /\ UNCHANGED << checks, approvalOverridden, mergeMethodResult >>

\* action.ts 229-236: after the loop, the await of the stale-dismissal warning
\* (only when a dismissal failed) or the gate
AfterReviews(approvals, failures) ==
    /\ reviewIdx' = 0
    /\ review' = NoReview
    /\ validApprovals' = approvals
    /\ IF Len(failures) > 0
         THEN /\ Post("Stale approval dismiss failures", NoResult)
              /\ UNCHANGED << checks, approvalOverridden, mergeMethodResult >>
         ELSE Gate(approvals)

\* action.ts 188: the for-of loop moves on to element i of approvedReviews, or
\* ends.  The list is fixed when fetchApprovedReviews returns and is read only
\* here, one element at a time: whether there is an element i, and which, is
\* drawn when the loop reaches it.
NextReview(i, approvals, failures) ==
    \/ /\ i <= MaxReviews
       /\ \E r \in Reviews(host.headSha) : review' = r
       /\ reviewIdx' = i
       /\ validApprovals' = approvals
       /\ pc' = "review"
       /\ UNCHANGED << comment, checks, approvalOverridden, mergeMethodResult >>
    \/ AfterReviews(approvals, failures)

\* action.ts 181-188 (github-api.ts 146-152: the APPROVED reviews)
FetchApprovedReviews ==
    /\ pc = "fetchApprovedReviews"
    /\ Log("fetchApprovedReviews")
    /\ NextReview(1, 0, dismissFailures)
    /\ UNCHANGED << host, mergedSha, actor, mergeOptions, prData, prStateChecks,
                    threadsCheck, permissionCache, dismissFailures, originalHeadSha,
                    retries, comments, mergeCalls, result >>
    /\ UNCHANGED runVars
    /\ UNCHANGED bodyVars

\* action.ts 188-228: the loop body on the current review, up to its first await
ReviewStep ==
    /\ pc = "review"
    /\ LET outcome == ReviewOutcome(review, permissionCache)
       IN  IF outcome \in {"getReviewerPermission", "dismissReview"}
             THEN /\ pc' = outcome
                  /\ UNCHANGED << reviewIdx, review, validApprovals, comment, checks,
                                  approvalOverridden, mergeMethodResult >>
             ELSE NextReview(reviewIdx + 1,
                             IF outcome = "valid" THEN validApprovals + 1
                                                  ELSE validApprovals,
                             dismissFailures)
    /\ UNCHANGED << host, mergedSha, actor, mergeOptions, prData, prStateChecks, threadsCheck,
                    permissionCache, dismissFailures, originalHeadSha,
                    retries, comments, lastCall, fetches, sleeps, mergeCalls, result >>
    /\ UNCHANGED runVars
    /\ UNCHANGED bodyVars

\* action.ts 205-209: the reviewer's permission level, cached per login; the loop
\* body resumes at the permission test
GetReviewerPermission ==
    /\ pc = "getReviewerPermission"
    /\ \E rejects \in BOOLEAN, answer \in ReviewerPermissions :
          LET reviewerPermission == getCollaboratorPermission(rejects, answer)
          IN
          /\ Log(IF rejects THEN Rejected("getCollaboratorPermission")
                            ELSE "getCollaboratorPermission")
          /\ permissionCache' = [permissionCache EXCEPT ![review.login] = reviewerPermission]
    /\ pc' = "review"
    /\ UNCHANGED << host, mergedSha, actor, mergeOptions, prData, prStateChecks, threadsCheck,
                    reviewIdx, review, validApprovals, dismissFailures,
                    checks, approvalOverridden, mergeMethodResult, originalHeadSha,
                    retries, comment, comments, mergeCalls, result >>
    /\ UNCHANGED runVars
    /\ UNCHANGED bodyVars

\* action.ts 216-225: the dismissal of a stale approval (false when it fails,
\* github-api.ts 174-185), then the next review
DismissReview ==
    /\ pc = "dismissReview"
    /\ Log("dismissReview")
    /\ \E rejects \in BOOLEAN :
          LET dismissed == dismissReview(rejects)
              failures == IF dismissed THEN dismissFailures
                          ELSE Append(dismissFailures, review.login)
          IN  /\ dismissFailures' = failures
              /\ NextReview(reviewIdx + 1, validApprovals, failures)
    /\ UNCHANGED << host, mergedSha, actor, mergeOptions, prData, prStateChecks, threadsCheck,
                    permissionCache, originalHeadSha, retries,
                    comments, mergeCalls, result >>
    /\ UNCHANGED runVars
    /\ UNCHANGED bodyVars

\* action.ts 233-236, then the gate
PostStaleComment ==
    /\ pc = "postComment"
    /\ comment.heading = "Stale approval dismiss failures"
    /\ Log("postComment")
    /\ comments' = Append(comments, comment.heading)
    /\ Gate(validApprovals)
    /\ UNCHANGED << host, mergedSha, actor, mergeOptions, prData, prStateChecks, threadsCheck,
                    reviewIdx, review, permissionCache, validApprovals,
                    dismissFailures, originalHeadSha, retries, mergeCalls, result >>
    /\ UNCHANGED runVars
    /\ UNCHANGED bodyVars

-----------------------------------------------------------------------------
(* executeAction, step 5: TOCTOU check, mergeability wait and merge *)

\* A head test that never reports a change
HeadChangedNever(pr, original) == FALSE

\* A head test made on the snapshot held before the fetch, not on the fetched one
HeadChangedStale(pr, original) == prData.headSha # original

\* action.ts 332 and 352
HeadChanged(pr, original) == pr.headSha # original

\* A while condition without the retry budget
RetryConditionUnbounded(pr, n) == pr.mergeable = Null

\* A while condition that gives up one iteration early
RetryConditionShort(pr, n) == pr.mergeable = Null /\ n + 1 < mergeableRetryCount

\* action.ts 346: the while condition
RetryCondition(pr, n) == pr.mergeable = Null /\ n < mergeableRetryCount

\* A final gate that reads the mergeable flag only
NotMergeableFlagOnly(pr) == pr.mergeable = "false" \/ pr.mergeable = Null

\* action.ts 366
NotMergeable(pr) ==
    pr.mergeable = "false" \/ pr.mergeable = Null \/ pr.mergeableState # "clean"

\* action.ts 367-374
NotMergeableHeading(pr) ==
    IF pr.mergeable = Null THEN "Mergeability status pending"
    ELSE IF pr.mergeableState = "dirty" THEN "Conflicts detected"
    ELSE "Cannot merge"

\* A step 5 whose retry loop does not repeat the head test (n > 0: inside the loop)
AfterRefetchUncheckedRetry(snap, n, message) ==
    IF n = 0 /\ HeadChanged(snap, originalHeadSha)
        THEN Post("New commits detected", Result("failed", message))
    ELSE IF RetryCondition(snap, n)
        THEN pc' = "waitBeforeRetryMs" /\ UNCHANGED comment
    ELSE IF NotMergeable(snap)
        THEN Post(NotMergeableHeading(snap), Result("failed", "Not mergeable"))
    ELSE IF mergeMethodResult.method = "merge"
        THEN pc' = "mergePullRequest" /\ UNCHANGED comment
    ELSE pc' = "fetchPullRequestCommits" /\ UNCHANGED comment

\* action.ts 332-443: from a re-fetched snapshot to the next await
AfterRefetch(snap, n, message) ==
    IF HeadChanged(snap, originalHeadSha)
        THEN Post("New commits detected", Result("failed", message))
    ELSE IF RetryCondition(snap, n)
        THEN pc' = "waitBeforeRetryMs" /\ UNCHANGED comment
    ELSE IF NotMergeable(snap)
        THEN Post(NotMergeableHeading(snap), Result("failed", "Not mergeable"))
    ELSE IF mergeMethodResult.method = "merge"
        THEN pc' = "mergePullRequest" /\ UNCHANGED comment
    ELSE pc' = "fetchPullRequestCommits" /\ UNCHANGED comment

\* A checks comment that is posted twice
PostChecksPassedTwice ==
    /\ pc = "postComment"
    /\ comment.heading = "Merge checks passed"
    /\ Log("postComment")
    /\ comments' = Append(Append(comments, comment.heading), comment.heading)
    /\ originalHeadSha' = prData.headSha
    /\ pc' = "refetch"
    /\ comment' = NoComment
    /\ UNCHANGED << host, mergedSha, actor, mergeOptions, prData, prStateChecks, threadsCheck,
                    reviewIdx, review, permissionCache, validApprovals,
                    dismissFailures, checks, approvalOverridden, mergeMethodResult,
                    retries, mergeCalls, result >>
    /\ UNCHANGED runVars
    /\ UNCHANGED bodyVars

\* action.ts 315-330
PostChecksPassed ==
    /\ pc = "postComment"
    /\ comment.heading = "Merge checks passed"
    /\ Log("postComment")
    /\ comments' = Append(comments, comment.heading)
    /\ originalHeadSha' = prData.headSha
    /\ pc' = "refetch"
    /\ comment' = NoComment
    /\ UNCHANGED << host, mergedSha, actor, mergeOptions, prData, prStateChecks, threadsCheck,
                    reviewIdx, review, permissionCache, validApprovals,
                    dismissFailures, checks, approvalOverridden, mergeMethodResult,
                    retries, mergeCalls, result >>
    /\ UNCHANGED runVars
    /\ UNCHANGED bodyVars

\* action.ts 330-346: the pre-merge re-fetch
Refetch ==
    /\ pc = "refetch"
    /\ Log("fetchPullRequestData")
    /\ LET snap == Snapshot(host, prData.isFork, prData.headRef, prData.title)
       IN  /\ prData' = snap
           /\ AfterRefetch(snap, retries, "TOCTOU violation")
           /\ commitBody' = IF pc' = "mergePullRequest"
                               THEN mergeCommitBody(snap.title,
                                                    additionalMessages(approvalOverridden))
                               ELSE commitBody
    /\ UNCHANGED << host, mergedSha, actor, mergeOptions, prStateChecks, threadsCheck,
                    reviewIdx, review, permissionCache, validApprovals,
                    dismissFailures, checks, approvalOverridden, mergeMethodResult,
                    originalHeadSha, retries, comments, mergeCalls, result, commits >>
    /\ UNCHANGED runVars

\* action.ts 347: the sleep of the retry loop
WaitBeforeRetry ==
    /\ pc = "waitBeforeRetryMs"
    /\ Log("waitBeforeRetryMs")
    /\ pc' = "retryFetch"
    /\ UNCHANGED << host, mergedSha, actor, mergeOptions, prData, prStateChecks, threadsCheck,
                    reviewIdx, review, permissionCache, validApprovals,
                    dismissFailures, checks, approvalOverridden, mergeMethodResult,
                    originalHeadSha, retries, comment, comments, mergeCalls, result >>
    /\ UNCHANGED runVars
    /\ UNCHANGED bodyVars

\* action.ts 348-362: the re-fetch of the retry loop
RetryFetch ==
    /\ pc = "retryFetch"
    /\ Log("fetchPullRequestData")
    /\ retries' = retries + 1
    /\ LET snap == Snapshot(host, prData.isFork, prData.headRef, prData.title)
       IN  /\ prData' = snap
           /\ AfterRefetch(snap, retries + 1, "TOCTOU violation during retry")
           /\ commitBody' = IF pc' = "mergePullRequest"
                               THEN mergeCommitBody(snap.title,
                                                    additionalMessages(approvalOverridden))
                               ELSE commitBody
    /\ UNCHANGED << host, mergedSha, actor, mergeOptions, prStateChecks, threadsCheck,
                    reviewIdx, review, permissionCache, validApprovals,
                    dismissFailures, checks, approvalOverridden, mergeMethodResult,
                    originalHeadSha, comments, mergeCalls, result, commits >>
    /\ UNCHANGED runVars

\* action.ts 403-443: the commit listing of a squash merge
ListCommits(listings) ==
    /\ pc = "fetchPullRequestCommits"
    /\ Log("fetchPullRequestCommits")
    /\ \E listing \in listings :
          /\ commits' = listing
          /\ commitBody' = squashCommitBody(listing, additionalMessages(approvalOverridden))
    /\ pc' = "mergePullRequest"
    /\ UNCHANGED << host, mergedSha, actor, mergeOptions, prData, prStateChecks, threadsCheck,
                    reviewIdx, review, permissionCache, validApprovals,
                    dismissFailures, checks, approvalOverridden, mergeMethodResult,
                    originalHeadSha, retries, comment, comments, mergeCalls, result >>
    /\ UNCHANGED runVars

\* action.ts 403: the listing the host returns
FetchPullRequestCommits == ListCommits(ListedCommits)

\* The host merges only an open, unmerged PR whose head is the expected SHA
\* (pulls.merge with sha); it may reject any merge.
HostCanMerge(h, sha) == ~h.merged /\ h.state = "open" /\ h.headSha = sha

\* A merge call whose expected SHA is whatever the head is when the call arrives
ExpectedShaOfCurrentHead == host.headSha

\* action.ts 449: the sha argument of mergePullRequest
ExpectedSha == originalHeadSha

\* What the merge call of the host throws when it refuses: an Error with the
\* host's text, or a value that is no Error (Null)
MergeRejections == {"Head branch was modified", "Pull Request is not mergeable", Null}

\* github-api.ts 313-314: the error text mergePullRequest returns
ErrorMessage(thrown) == IF thrown = Null THEN "Unknown error" ELSE thrown

\* A failure message that leaves the error text out
MergeFailedMessageWithoutError(error) == "Merge failed"

\* action.ts 462: `Merge failed: ${mergeResult.error}`
MergeFailedMessage(error) ==
    CASE error = "Head branch was modified" -> "Merge failed: Head branch was modified"
      [] error = "Pull Request is not mergeable" -> "Merge failed: Pull Request is not mergeable"
      [] error = "Unknown error" -> "Merge failed: Unknown error"

\* A merge call that is issued again when the host refuses it
MergePullRequestAgainWhenRefused ==
    /\ pc = "mergePullRequest"
    /\ Len(mergeCalls) < 2
    /\ Log("mergePullRequest")
    /\ \E success \in BOOLEAN, thrown \in MergeRejections :
          /\ success => HostCanMerge(host, ExpectedSha) /\ thrown = Null
          /\ mergeCalls' = Append(mergeCalls,
                                  [method |-> mergeMethodResult.method,
                                   sha |-> ExpectedSha, body |-> commitBody,
                                   success |-> success,
                                   error |-> IF success THEN "" ELSE ErrorMessage(thrown)])
          /\ IF success
               THEN /\ host' = [host EXCEPT !.merged = TRUE, !.state = "closed"]
                    /\ mergedSha' = host.headSha
                    /\ Post("Merged by nylbot-merge",
                            [status |-> "merged", message |-> "PR merged successfully",
                             mergeMethod |-> mergeMethodResult.method])
               ELSE UNCHANGED << host, mergedSha, pc, comment >>
    /\ UNCHANGED << actor, mergeOptions, prData, prStateChecks, threadsCheck,
                    reviewIdx, review, permissionCache, validApprovals,
                    dismissFailures, checks, approvalOverridden, mergeMethodResult,
                    originalHeadSha, retries, comments, result >>
    /\ UNCHANGED runVars
    /\ UNCHANGED bodyVars

\* A merge step that reports merged whatever the host answers
MergePullRequestReportingMerged ==
    /\ pc = "mergePullRequest"
    /\ Log("mergePullRequest")
    /\ \E success \in BOOLEAN, thrown \in MergeRejections :
          /\ success => HostCanMerge(host, ExpectedSha) /\ thrown = Null
          /\ mergeCalls' = Append(mergeCalls,
                                  [method |-> mergeMethodResult.method,
                                   sha |-> ExpectedSha, body |-> commitBody,
                                   success |-> success,
                                   error |-> IF success THEN "" ELSE ErrorMessage(thrown)])
          /\ IF success
               THEN /\ host' = [host EXCEPT !.merged = TRUE, !.state = "closed"]
                    /\ mergedSha' = host.headSha
               ELSE UNCHANGED << host, mergedSha >>
          /\ Post("Merged by nylbot-merge",
                  [status |-> "merged", message |-> "PR merged successfully",
                   mergeMethod |-> mergeMethodResult.method])
    /\ UNCHANGED << actor, mergeOptions, prData, prStateChecks, threadsCheck,
                    reviewIdx, review, permissionCache, validApprovals,
                    dismissFailures, checks, approvalOverridden, mergeMethodResult,
                    originalHeadSha, retries, comments, result >>
    /\ UNCHANGED runVars
    /\ UNCHANGED bodyVars

\* action.ts 443-483 (github-api.ts 291-316)
MergePullRequest ==
    /\ pc = "mergePullRequest"
    /\ Log("mergePullRequest")
    /\ \E success \in BOOLEAN, thrown \in MergeRejections :
          /\ success => HostCanMerge(host, ExpectedSha) /\ thrown = Null
          /\ mergeCalls' = Append(mergeCalls,
                                  [method |-> mergeMethodResult.method,
                                   sha |-> ExpectedSha, body |-> commitBody,
                                   success |-> success,
                                   error |-> IF success THEN "" ELSE ErrorMessage(thrown)])
          /\ IF success
               THEN /\ host' = [host EXCEPT !.merged = TRUE, !.state = "closed"]
                    /\ mergedSha' = host.headSha
                    /\ Post("Merged by nylbot-merge",
                            [status |-> "merged", message |-> "PR merged successfully",
                             mergeMethod |-> mergeMethodResult.method])
               ELSE /\ UNCHANGED << host, mergedSha >>
                    /\ PostWith("Merge failed", ErrorMessage(thrown),
                                Result("failed", MergeFailedMessage(ErrorMessage(thrown))))
    /\ UNCHANGED << actor, mergeOptions, prData, prStateChecks, threadsCheck,
                    reviewIdx, review, permissionCache, validApprovals,
                    dismissFailures, checks, approvalOverridden, mergeMethodResult,
                    originalHeadSha, retries, comments, result >>
    /\ UNCHANGED runVars
    /\ UNCHANGED bodyVars

\* A return that leaves out the comment
ReturnWithoutComment ==
    /\ pc = "postComment"
    /\ comment.returns # NoResult
    /\ result' = comment.returns
    /\ pc' = "done"
    /\ UNCHANGED << host, mergedSha, actor, mergeOptions, prData, prStateChecks, threadsCheck,
                    reviewIdx, review, permissionCache, validApprovals,
                    dismissFailures, checks, approvalOverridden, mergeMethodResult,
                    originalHeadSha, retries, comment, mergeCalls, comments, lastCall,
                    fetches, sleeps >>
    /\ core' = SetOutputs(core, result')
    /\ UNCHANGED << config, octokit >>
    /\ UNCHANGED bodyVars

\* Every postComment that is followed by a return
PostCommentAndReturn ==
    /\ pc = "postComment"
    /\ comment.returns # NoResult
    /\ Log("postComment")
    /\ comments' = Append(comments, comment.heading)
    /\ result' = comment.returns
    /\ pc' = "done"
    /\ UNCHANGED << host, mergedSha, actor, mergeOptions, prData, prStateChecks, threadsCheck,
                    reviewIdx, review, permissionCache, validApprovals,
                    dismissFailures, checks, approvalOverridden, mergeMethodResult,
                    originalHeadSha, retries, comment, mergeCalls >>
    /\ core' = SetOutputs(core, result')
    /\ UNCHANGED << config, octokit >>
    /\ UNCHANGED bodyVars

\* The awaits whose rejection executeAction does not catch (github-api.ts: postComment,
\* fetchPullRequestData, countUnresolvedThreads, fetchApprovedReviews and
\* fetchPullRequestCommits have no try/catch)
UncaughtAwaits ==
    {"postComment", "fetchPullRequestData", "countUnresolvedThreads",
     "fetchApprovedReviews", "refetch", "retryFetch", "fetchPullRequestCommits"}

\* The awaited call rejects: executeAction's frame is unwound, no result is returned
RemoteCallThrows ==
    /\ pc \in UncaughtAwaits
    /\ Log(IF pc \in {"refetch", "retryFetch"} THEN "fetchPullRequestData" ELSE pc)
    /\ pc' = "threw"
    /\ actor' = NoActor
    /\ mergeOptions' = NoCommand
    /\ prData' = NoPrData
    /\ prStateChecks' = << >>
    /\ threadsCheck' = NoCheck
    /\ reviewIdx' = 0
    /\ review' = NoReview
    /\ permissionCache' = NoCache
    /\ validApprovals' = 0
    /\ dismissFailures' = << >>
    /\ checks' = << >>
    /\ approvalOverridden' = FALSE
    /\ mergeMethodResult' = NoMethod
    /\ originalHeadSha' = 0
    /\ retries' = 0
    /\ comment' = NoComment
    /\ UNCHANGED << host, mergedSha, comments, mergeCalls, result >>
    /\ core' = SetFailed(core, HttpError)
    /\ UNCHANGED << config, octokit >>
    /\ commits' = << >>
    /\ commitBody' = << >>

-----------------------------------------------------------------------------
(* The other parties acting on the pull request while the invocation runs *)
(*                                                                         *)
(* A change of the remote PR commutes with every step of the invocation    *)
(* that does not read what it changes, so each change is taken just before *)
(* an await whose call reads it.  What the first fetch reads is Init.      *)

\* The awaits whose call reads the head commit of the PR
HeadReaders ==
    {"fetchApprovedReviews", "refetch", "retryFetch", "fetchPullRequestCommits",
     "mergePullRequest"}

\* The awaits whose call reads mergeable and mergeable_state
MergeabilityReaders == {"refetch", "retryFetch"}

invocationVars ==
    << mergedSha, pc, actor, mergeOptions, prData, prStateChecks, threadsCheck, reviewIdx, review, permissionCache, validApprovals, dismissFailures, checks,
       approvalOverridden, mergeMethodResult, originalHeadSha, retries, comment,
       comments, lastCall, fetches, sleeps, mergeCalls, result, commits, commitBody >>

\* Someone pushes a commit to the head branch: the host starts recomputing mergeability
Push ==
    /\ pc \in HeadReaders
    /\ ~host.merged
    /\ host.headSha < MaxSha
    /\ host' = [host EXCEPT !.headSha = @ + 1, !.mergeable = Null,
                            !.mergeableState = "unknown"]
    /\ UNCHANGED invocationVars
    /\ UNCHANGED runVars

\* The host's mergeability changes (a computation finishes, the base branch moves,
\* a status check reports)
MergeabilityChanges ==
    /\ pc \in MergeabilityReaders
    /\ ~host.merged
    /\ \E m \in Mergeabilities :
          /\ m # << host.mergeable, host.mergeableState >>
          /\ host' = [host EXCEPT !.mergeable = m[1], !.mergeableState = m[2]]
    /\ UNCHANGED invocationVars
    /\ UNCHANGED runVars

-----------------------------------------------------------------------------

\* The awaits whose call reads whether the PR is merged (the first fetch reads Init)
MergedReaders == {"refetch", "retryFetch", "mergePullRequest"}

\* Another invocation for the same PR, running concurrently, has its merge
\* call accepted by the host (action.ts 443-452 of that invocation)
MergedByAnotherInvocation ==
    /\ pc \in MergedReaders
    /\ ~host.merged
    /\ host.state = "open"
    /\ host' = [host EXCEPT !.merged = TRUE, !.state = "closed"]
    /\ UNCHANGED invocationVars
    /\ UNCHANGED runVars

\* The awaits whose call reads the base branch, the state, the lock and the
\* draft flag of the PR anew (the first fetch reads Init)
SnapshotReaders == {"refetch", "retryFetch"}

\* Someone changes the base branch of the open PR (once between two snapshots)
BaseChanges ==
    /\ pc \in SnapshotReaders
    /\ ~host.merged
    /\ host.state = "open"
    /\ host.baseRef = prData.baseRef
    /\ \E baseRef \in BaseRefs \ {host.baseRef} :
          host' = [host EXCEPT !.baseRef = baseRef]
    /\ UNCHANGED invocationVars
    /\ UNCHANGED runVars

\* Someone closes the PR, locks it or converts it to a draft (one of the
\* three, once)
ReadinessChanges ==
    /\ pc \in SnapshotReaders
    /\ ~host.merged
    /\ host.state = "open" /\ ~host.locked /\ ~host.draft
    /\ \/ host' = [host EXCEPT !.state = "closed"]
       \/ host' = [host EXCEPT !.locked = TRUE]
       \/ host' = [host EXCEPT !.draft = TRUE]
    /\ UNCHANGED invocationVars
    /\ UNCHANGED runVars

\* What summary.write() rejects with
SummaryError == [NoFailure EXCEPT !.error = "summary write failed"]

\* main.ts 157-158: executeAction has returned and the outputs are set; the
\* job summary is written, and a rejection of the write reaches the catch
WriteSummary ==
    /\ pc = "done"
    /\ core.summary = "none"
    /\ \E written \in BOOLEAN :
          core' = IF written THEN [core EXCEPT !.summary = "written"]
                  ELSE SetFailed([core EXCEPT !.summary = "rejected"], SummaryError)
    /\ UNCHANGED << host, invocationVars, config, octokit >>

Next ==
    \/ Start
    \/ AddReaction
    \/ GetActorPermission
    \/ FetchPullRequestData
    \/ CountUnresolvedThreads
    \/ FetchApprovedReviews
    \/ ReviewStep
    \/ GetReviewerPermission
    \/ DismissReview
    \/ PostStaleComment
    \/ PostChecksPassed
    \/ Refetch
    \/ WaitBeforeRetry
    \/ RetryFetch
    \/ FetchPullRequestCommits
    \/ MergePullRequest
    \/ PostCommentAndReturn
    \/ RemoteCallThrows
    \/ WriteSummary
    \/ Push
    \/ MergedByAnotherInvocation
    \/ MergeabilityChanges
    \/ BaseChanges
    \/ ReadinessChanges

Spec == Init /\ [][Next]_vars

-----------------------------------------------------------------------------
(* Properties of the merge pipeline *)

Last(s) == s[Len(s)]

Posted == { comments[i] : i \in 1..Len(comments) }

\* The failure comment is the pending call, and its return is followed by `failed`
PendingFailure(heading, message) ==
    /\ pc = "postComment"
    /\ comment.heading = heading
    /\ comment.returns = Result("failed", message)

\* The failure comment was the last call, and `failed` was returned
ReturnedFailure(heading, message) ==
    /\ pc = "done"
    /\ lastCall = "postComment"
    /\ comments # << >> /\ Last(comments) = heading
    /\ result = Result("failed", message)

Fails(heading, message) ==
    PendingFailure(heading, message) \/ ReturnedFailure(heading, message)

\* The invocation holds a snapshot re-fetched in step 5
Refetched == originalHeadSha # 0 /\ fetches >= 2

HeadUnchanged == prData.headSha = originalHeadSha

Retrying == pc \in {"waitBeforeRetryMs", "retryFetch"}

MergeReady == prData.mergeable = "true" /\ prData.mergeableState = "clean"

\* No merge call was refused by the host
MergeAccepted == \A i \in 1..Len(mergeCalls) : mergeCalls[i].success

\* C1: whenever the snapshot re-fetched after check aggregation (by the
\* pre-merge re-fetch or by a re-fetch of the retry loop) has a headSha other
\* than the validation snapshot's, the only call the invocation makes after that
\* fetch is the 'New commits detected' comment, whose return is followed by
\* `failed`: no sleep and no fetch follow the mismatching fetch, and no merge
\* call is ever issued.
C1_NewCommitsAbort ==
    (originalHeadSha # 0 /\ ~HeadUnchanged) =>
        /\ mergeCalls = << >>
        /\ fetches = retries + 2
        /\ sleeps = retries
        /\ \/ /\ pc = "postComment"
              /\ lastCall = "fetchPullRequestData"
              /\ comment.heading = "New commits detected"
              /\ comment.returns \in {Result("failed", "TOCTOU violation"),
                                      Result("failed", "TOCTOU violation during retry")}
           \/ /\ pc = "done"
              /\ lastCall = "postComment"
              /\ Last(comments) = "New commits detected"
              /\ result \in {Result("failed", "TOCTOU violation"),
                             Result("failed", "TOCTOU violation during retry")}

\* C1: a push during the mergeability wait was detected by a re-fetch of the loop
C1_Witness ==
    /\ pc = "done"
    /\ result = Result("failed", "TOCTOU violation during retry")
    /\ prData.headSha # originalHeadSha
    /\ sleeps >= 1

\* C2: originalHeadSha is the headSha of the snapshot the checks were aggregated
\* on; every snapshot fetched after it on which the invocation goes on (to a
\* sleep, to the commit listing or to the merge call) has that headSha; and
\* every merge call passes originalHeadSha as its expected SHA.
C2_MergeExpectsValidatedSha ==
    [][ /\ (originalHeadSha' # originalHeadSha /\ originalHeadSha' # 0) =>
              /\ fetches = 1
              /\ checks # << >>
              /\ checks[4] = MergeableStateCheck(prData)
              /\ originalHeadSha' = prData.headSha
        /\ (fetches' > fetches /\ originalHeadSha # 0
            /\ pc' \in {"waitBeforeRetryMs", "fetchPullRequestCommits", "mergePullRequest"}) =>
              prData'.headSha = originalHeadSha
        /\ mergeCalls' # mergeCalls =>
              /\ Len(mergeCalls') = Len(mergeCalls) + 1
              /\ originalHeadSha # 0
              /\ Last(mergeCalls').sha = originalHeadSha
              /\ prData.headSha = originalHeadSha
              /\ fetches >= 2
      ]_vars

\* C2: a merge call was issued after the re-fetch and a retry re-fetch
C2_Witness ==
    /\ mergeCalls # << >>
    /\ fetches >= 3
    /\ originalHeadSha # 0
    /\ Last(mergeCalls).sha = originalHeadSha

\* The head commit of the validation snapshot, on which the approvals were judged
ValidatedSha == IF originalHeadSha # 0 THEN originalHeadSha ELSE prData.headSha

\* C3: whatever pushes interleave with the invocation, the commit a successful
\* merge call merges is the expected SHA of that call, the head of the
\* validation snapshot; and an invocation that returns while the head is no
\* longer the validated one returns failed and has merged nothing.
C3_MergesOnlyValidatedHead ==
    /\ mergedSha # 0 =>
          /\ mergeCalls # << >>
          /\ Last(mergeCalls).success
          /\ Last(mergeCalls).sha = mergedSha
          /\ host.headSha = mergedSha
          /\ pc # "threw" => mergedSha = ValidatedSha
    /\ (pc = "done" /\ fetches >= 1 /\ host.headSha # ValidatedSha) =>
          /\ result.status = "failed"
          /\ mergedSha = 0
          /\ \A i \in 1..Len(mergeCalls) : ~mergeCalls[i].success

\* C3: a push arrived after the last re-fetch, and the host refused the merge call
C3_Witness ==
    /\ pc = "done"
    /\ originalHeadSha # 0
    /\ prData.headSha = originalHeadSha
    /\ host.headSha # originalHeadSha
    /\ mergeCalls # << >>
    /\ ~Last(mergeCalls).success
    /\ result.status = "failed"

\* The checks that are required and have not passed
RequiredFailures == { i \in 1..Len(checks) : ~checks[i].optional /\ ~checks[i].passed }

\* C4: once the checks are aggregated, the invocation is on the passing side
\* of the gate (the 'Merge checks passed' comment, then the pre-merge re-fetch)
\* exactly when no required check has failed; otherwise the 'Merge checks
\* failed' comment is its last call, `failed` is returned, and there is no
\* re-fetch, no sleep and no merge call.
C4_GateIffRequiredChecksPass ==
    checks # << >> =>
        IF RequiredFailures = {}
          THEN /\ "Merge checks failed" \notin Posted
               /\ comment.heading # "Merge checks failed"
               /\ \/ /\ pc = "postComment"
                     /\ comment = [heading |-> "Merge checks passed", detail |-> "", returns |-> NoResult]
                     /\ fetches = 1
                  \/ /\ "Merge checks passed" \in Posted
                     /\ originalHeadSha # 0
                     /\ pc = "refetch" \/ fetches >= 2
          ELSE /\ "Merge checks passed" \notin Posted
               /\ Fails("Merge checks failed", "Merge checks failed")
               /\ originalHeadSha = 0
               /\ fetches = 1
               /\ sleeps = 0
               /\ mergeCalls = << >>

\* C4: the gate was passed although an optional check had failed
C4_Witness ==
    /\ checks # << >>
    /\ \E i \in 1..Len(checks) : checks[i].optional /\ ~checks[i].passed
    /\ "Merge checks passed" \in Posted
    /\ fetches >= 2

\* C5: the commit listing and the merge call are reached, and a merge call has
\* been issued, only on a last snapshot with mergeable = true and
\* mergeableState = 'clean'; a last snapshot of the validated head that is not
\* so, once the wait is over, ends in the 'Not mergeable' failure without a
\* merge call.
C5_MergeOnlyWhenMergeableAndClean ==
    /\ (pc \in {"fetchPullRequestCommits", "mergePullRequest"}
        \/ (mergeCalls # << >> /\ pc # "threw")) =>
          /\ prData.mergeable = "true"
          /\ prData.mergeableState = "clean"
    /\ (Refetched /\ HeadUnchanged /\ ~Retrying /\ ~MergeReady) =>
          /\ mergeCalls = << >>
          /\ Fails(NotMergeableHeading(prData), "Not mergeable")

\* C5: mergeable = true but a state that is not clean, at the final gate
C5_Witness ==
    /\ pc = "done"
    /\ result = Result("failed", "Not mergeable")
    /\ prData.mergeable = "true"
    /\ prData.mergeableState # "clean"
    /\ mergeCalls = << >>

\* C6: the first fetch of PR data is awaited only for a commenter who is not a
\* Bot, whose association is OWNER, MEMBER or COLLABORATOR and whose permission
\* is admin, maintain or write; before that fetch there is no PR data, no check,
\* no dismissal and no merge call; and a recognized command whose association
\* or permission test fails ends in the 'Permission denied' failure.
C6_AuthorizedBeforeAnyPrAccess ==
    /\ pc = "fetchPullRequestData" =>
          /\ actor.userType = "User"
          /\ actor.authorAssociation \in {"OWNER", "MEMBER", "COLLABORATOR"}
          /\ actor.permission \in {"admin", "maintain", "write"}
    /\ fetches = 0 =>
          /\ pc \in {"start", "addReaction", "getCollaboratorPermission",
                     "fetchPullRequestData", "postComment", "done", "threw"}
          /\ prData = NoPrData
          /\ prStateChecks = << >> /\ checks = << >>
          /\ mergeCalls = << >> /\ mergedSha = 0
          /\ lastCall \in {"none", "addReaction", Rejected("addReaction"),
                           "getCollaboratorPermission",
                           Rejected("getCollaboratorPermission"), "postComment"}
    /\ (mergeOptions.matched /\ actor.authorAssociation # Undefined
        /\ actor.authorAssociation \notin {"OWNER", "MEMBER", "COLLABORATOR"}) =>
          /\ Fails("Permission denied", "Invalid author association")
          /\ fetches = 0
    /\ (actor.permission # Undefined
        /\ actor.permission \notin {"admin", "maintain", "write"}) =>
          /\ Fails("Permission denied", "Insufficient permissions")
          /\ fetches = 0

\* C6: a member without write access was denied
C6_Witness ==
    /\ pc = "done"
    /\ actor.authorAssociation = "MEMBER"
    /\ actor.permission = "read"
    /\ comments = << "Permission denied" >>
    /\ result = Result("failed", "Insufficient permissions")
    /\ fetches = 0

\* The method the precedence head-release > head-sync > base-release >
\* base-develop > default gives
ResolvedMethod(headRef, baseRef) ==
    IF headRef # << >> /\ Head(headRef) \in {"release/", "fix/sync/"} THEN "merge"
    ELSE IF baseRef # << >> /\ Head(baseRef) \in {"release/", "develop"} THEN "squash"
    ELSE "merge"

\* C7: an invocation that has returned and whose four required checks passed
\* (open, unlocked, not a draft; no unresolved thread; a valid approval; state
\* clean), whose re-fetched snapshot has the validated head and is mergeable
\* and clean and has branches the resolver decides as it did those of the
\* validated snapshot (nobody retargeted the PR meanwhile), and none of whose
\* merge calls the host refused, has issued one merge call and returned
\* merged with the resolver's method: squash when the base is develop and the
\* head neither a release nor a sync branch.
C7_HappyPathMerges ==
    (/\ pc = "done"
     /\ Len(checks) = 5
     /\ \A i \in 1..4 : checks[i].passed
     /\ Refetched /\ HeadUnchanged /\ MergeReady
     /\ mergeMethodResult = determineMergeMethod(prData.headRef, prData.baseRef)
     /\ MergeAccepted) =>
        /\ result = [status |-> "merged", message |-> "PR merged successfully",
                     mergeMethod |-> ResolvedMethod(prData.headRef, prData.baseRef)]
        /\ Len(mergeCalls) = 1
        /\ mergeCalls[1].method = result.mergeMethod
        /\ host.merged
        /\ Last(comments) = "Merged by nylbot-merge"
        /\ (prData.baseRef = << "develop" >>
            /\ Head(prData.headRef) \notin {"release/", "fix/sync/"}) =>
              result.mergeMethod = "squash"

\* C7: a feature branch was squashed into develop without any wait
C7_Witness ==
    /\ pc = "done"
    /\ result.status = "merged"
    /\ result.mergeMethod = "squash"
    /\ prData.baseRef = << "develop" >>
    /\ validApprovals >= 1
    /\ fetches = 2

-----------------------------------------------------------------------------
(* Termination: a measure every step of the invocation increases *)

\* The measure of the position inside the loop over the approved reviews
LoopRank ==
    4 * (reviewIdx - 1)
    + (IF pc = "getReviewerPermission" THEN 1
       ELSE IF pc = "dismissReview" THEN 3
       ELSE IF ReviewOutcome(review, permissionCache) = "getReviewerPermission" THEN 0
       ELSE 2)

AfterLoopRank == 6 + 4 * MaxReviews

RankMax == AfterLoopRank + 6 + 2 * mergeableRetryCount

Rank ==
    CASE pc = "start" -> 0
      [] pc = "addReaction" -> 1
      [] pc = "getCollaboratorPermission" -> 2
      [] pc = "fetchPullRequestData" -> 3
      [] pc = "countUnresolvedThreads" -> 4
      [] pc = "fetchApprovedReviews" -> 5
      [] pc \in {"review", "getReviewerPermission", "dismissReview"} -> 6 + LoopRank
      [] pc = "postComment" /\ comment.heading = "Stale approval dismiss failures" ->
            AfterLoopRank
      [] pc = "postComment" /\ comment.heading = "Merge checks passed" -> AfterLoopRank + 1
      [] pc = "refetch" -> AfterLoopRank + 2
      [] pc = "waitBeforeRetryMs" -> AfterLoopRank + 3 + 2 * retries
      [] pc = "retryFetch" -> AfterLoopRank + 4 + 2 * retries
      [] pc = "fetchPullRequestCommits" -> AfterLoopRank + 3 + 2 * mergeableRetryCount
      [] pc = "mergePullRequest" -> AfterLoopRank + 4 + 2 * mergeableRetryCount
      [] pc = "postComment" /\ comment.returns # NoResult ->
            AfterLoopRank + 5 + 2 * mergeableRetryCount
      [] Returned -> RankMax

\* C8: the invocation sleeps at most mergeableRetryCount times and fetches the
\* snapshot at most 2 + mergeableRetryCount times; every step of the invocation
\* (the return of its pending call) increases a measure that is at most RankMax
\* and is RankMax only once the invocation has ended, so the invocation ends
\* after at most RankMax returns of its calls; and a snapshot of the validated
\* head that is still pending once the wait is over was fetched by the last
\* iteration and ends in the 'Not mergeable' failure without a merge call.
C8_BoundedMergeabilityWait ==
    /\ [](/\ sleeps <= mergeableRetryCount
          /\ retries <= mergeableRetryCount
          /\ fetches <= 2 + mergeableRetryCount
          /\ Rank \in 0..RankMax
          /\ (Rank = RankMax) <=> Returned
          /\ (Refetched /\ HeadUnchanged /\ ~Retrying /\ prData.mergeable = Null) =>
                /\ retries = mergeableRetryCount
                /\ sleeps = mergeableRetryCount
                /\ fetches = 2 + mergeableRetryCount
                /\ mergeCalls = << >>
                /\ Fails("Mergeability status pending", "Not mergeable"))
    /\ [][UNCHANGED invocationVars \/ Rank' > Rank]_vars

\* C8: the retry budget was used up on a PR whose mergeability stayed pending
C8_Witness ==
    /\ pc = "done"
    /\ result = Result("failed", "Not mergeable")
    /\ prData.mergeable = Null
    /\ sleeps = mergeableRetryCount
    /\ fetches = 2 + mergeableRetryCount

\* The retry loop of C9: the invocation sleeps only on a pending snapshot of
\* the validated head, does sleep on such a snapshot while the budget lasts,
\* and neither sleeps nor fetches on a snapshot that is not pending, so that
\* the sleeps are as many as the pending snapshots fetched since validation.
RetriesWhilePending ==
    /\ [](/\ (Refetched /\ HeadUnchanged /\ prData.mergeable = Null
              /\ retries < mergeableRetryCount) => Retrying
          /\ (Refetched /\ prData.mergeable # Null) =>
                /\ ~Retrying
                /\ sleeps = fetches - 2
                /\ sleeps = retries)
    /\ [][sleeps' # sleeps =>
              /\ sleeps' = sleeps + 1
              /\ fetches = sleeps + 2
              /\ prData.mergeable = Null
              /\ prData.headSha = originalHeadSha]_vars

\* An invocation that returned after at least one sleep, on a last snapshot of
\* the validated head that is mergeable and clean
ReturnedAfterWait ==
    /\ pc = "done"
    /\ Refetched /\ HeadUnchanged /\ MergeReady
    /\ host.headSha = originalHeadSha
    /\ sleeps >= 1

C10_AsStated ==
    /\ pc \in {"waitBeforeRetryMs", "mergePullRequest"} =>
          originalHeadSha # 0 /\ prData.headSha = originalHeadSha
    /\ pc = "mergePullRequest" => lastCall = "fetchPullRequestData"

\* C10: the sleep, the commit listing and the merge call are awaited on the
\* most recently fetched snapshot, whose head equals originalHeadSha; the sleep
\* directly follows the fetch of that snapshot, and so does the merge call of
\* a merge commit; before the merge call of a squash there is one more round
\* trip, the commit listing, and no other.
C10_HeadTestedBeforeSleepAndMerge ==
    /\ pc \in {"waitBeforeRetryMs", "fetchPullRequestCommits", "mergePullRequest"} =>
          originalHeadSha # 0 /\ prData.headSha = originalHeadSha
    /\ pc \in {"waitBeforeRetryMs", "fetchPullRequestCommits"} =>
          lastCall = "fetchPullRequestData"
    /\ pc = "fetchPullRequestCommits" => mergeMethodResult.method = "squash"
    /\ pc = "mergePullRequest" =>
          lastCall = (IF mergeMethodResult.method = "squash"
                        THEN "fetchPullRequestCommits" ELSE "fetchPullRequestData")

\* C10: a squash is about to be requested, after a wait and the commit listing
C10_Witness ==
    /\ pc = "mergePullRequest"
    /\ lastCall = "fetchPullRequestCommits"
    /\ mergeMethodResult.method = "squash"
    /\ sleeps >= 1

-----------------------------------------------------------------------------
(* Approvals *)

\* The approval check of the aggregated list (after the readiness check and
\* the conversations check)
approvalCheck == checks[3]

OverriddenWording == "approval requirement overridden"

Wording(c) == { c.details[i] : i \in 1..Len(c.details) }

\* C11: in the aggregated list the approval check is optional exactly when the
\* override flag was supplied and no approval is valid; with a valid approval
\* it is required, passed and without details (so without 'overridden'
\* wording) whatever the flag; without approval and without flag it is
\* required and failed.
C11_ApprovalOptionalIffOverrideChangedOutcome ==
    checks # << >> =>
        /\ approvalCheck.name = "At least one valid approval from another user"
        /\ approvalCheck.optional <=>
              (mergeOptions.overrideApprovalRequirement /\ validApprovals = 0)
        /\ approvalOverridden = approvalCheck.optional
        /\ approvalCheck.passed <=> validApprovals >= 1
        /\ validApprovals >= 1 =>
              /\ ~approvalCheck.optional
              /\ approvalCheck.passed
              /\ approvalCheck.details = << >>
        /\ (validApprovals = 0 /\ ~mergeOptions.overrideApprovalRequirement) =>
              /\ ~approvalCheck.optional
              /\ ~approvalCheck.passed
              /\ OverriddenWording \notin Wording(approvalCheck)
        /\ OverriddenWording \in Wording(approvalCheck) <=> approvalCheck.optional

\* C11: the flag was supplied but a valid approval exists: the flag is inert
C11_Witness ==
    /\ checks # << >>
    /\ mergeOptions.overrideApprovalRequirement
    /\ validApprovals >= 1
    /\ ~approvalCheck.optional
    /\ approvalCheck.passed

\* The aggregation is awaiting its comment: prData is still the validation snapshot
AtGate ==
    /\ pc = "postComment"
    /\ comment.heading \in {"Merge checks passed", "Merge checks failed"}

\* The check list of the invocation that differs from this one in the override
\* flag only.  No step before the aggregation reads the flag, so that
\* invocation, on the same answers of the host, aggregates on the same snapshot,
\* the same conversations check and the same tally.
twinChecks == ChecksFor(validApprovals, ~mergeOptions.overrideApprovalRequirement)

OtherRequiredChecksPass == checks[1].passed /\ checks[2].passed /\ checks[4].passed

LeavesReview ==
    /\ pc \in {"review", "dismissReview"}
    /\ reviewIdx' # reviewIdx

\* The review is by somebody else than the PR's author
ByAnotherUser(r) == r.login \in Logins /\ r.login # prData.author

\* The reviewer's permission, as looked up (once) for the login
PermittedReviewer(r) ==
    r.login \in Logins /\ permissionCache[r.login] \in {"admin", "maintain", "write"}

\* The review is of the head commit of the validation snapshot
Fresh(r) == r.commit_id = prData.headSha

\* C13: the tally starts at 0 when the reviews are listed, and the loop adds to
\* it, for each review it is done with, exactly 1 if the reviewer has a login
\* other than the PR author's, holds admin, maintain or write permission and
\* reviewed the validation snapshot's headSha, and 0 otherwise; no other step
\* changes it. A review by the PR's author adds 0 whatever its commit and the
\* author's permission.
C13_TallyCountsValidApprovals ==
    [][ /\ LeavesReview =>
              validApprovals' = validApprovals
                  + (IF ByAnotherUser(review) /\ PermittedReviewer(review) /\ Fresh(review)
                       THEN 1 ELSE 0)
        /\ (LeavesReview /\ review.login = prData.author) =>
              validApprovals' = validApprovals
        /\ (~LeavesReview /\ validApprovals' # validApprovals) =>
              validApprovals' = 0 /\ pc' = "threw"
        /\ pc = "fetchApprovedReviews" => validApprovals = 0 /\ validApprovals' = 0
        /\ pc' = "review" => reviewIdx' \in 1..MaxReviews /\ validApprovals' < reviewIdx'
      ]_vars

\* C13: one approval was counted, and an approval of the validated head by the
\* PR's own author is in hand
C13_Witness ==
    /\ pc = "review"
    /\ reviewIdx = 2
    /\ validApprovals = 1
    /\ review.login = prData.author
    /\ Fresh(review)

\* C14, as stated: every approval of another commit than the snapshot's head
\* gets a dismissal attempt, and is never counted.
C14_AsStated ==
    [][(LeavesReview /\ ~Fresh(review)) =>
            /\ pc = "dismissReview"
            /\ validApprovals' = validApprovals]_vars

\* C14: an approval of another commit than the snapshot's head is never
\* counted, whether a dismissal succeeds or not; it gets a dismissal attempt
\* exactly when it is by another user than the PR's author (with a login) who
\* holds admin, maintain or write permission, and is skipped without a call
\* otherwise; and only such approvals are dismissed.
C14_StaleApprovalsDismissedNeverCounted ==
    /\ [](pc = "dismissReview" =>
            ~Fresh(review) /\ ByAnotherUser(review) /\ PermittedReviewer(review))
    /\ [][ /\ (LeavesReview /\ ~Fresh(review)) =>
                /\ validApprovals' = validApprovals
                /\ IF ByAnotherUser(review) /\ PermittedReviewer(review)
                     THEN pc = "dismissReview" /\ lastCall' = "dismissReview"
                     ELSE pc = "review" /\ lastCall' = lastCall
           /\ (pc = "dismissReview" /\ pc' # pc) =>
                /\ LeavesReview
                /\ validApprovals' = validApprovals
                /\ Len(dismissFailures') \in {Len(dismissFailures), Len(dismissFailures) + 1}
         ]_vars

\* C14: the only approval was stale, its dismissal succeeded, and it was not counted
C14_Witness ==
    /\ lastCall = "dismissReview"
    /\ dismissFailures = << >>
    /\ validApprovals = 0
    /\ checks # << >>
    /\ ~approvalCheck.passed

StaleHeading == "Stale approval dismiss failures"

\* How many times a comment with this heading was posted
TimesPosted(heading) == Cardinality({ i \in 1..Len(comments) : comments[i] = heading })

\* The headings of the comments executeAction posts
Headings ==
    {"Unrecognized command", "Permission denied", "Fork PR not supported",
     "Already merged", StaleHeading, "Merge checks failed", "Merge checks passed",
     "New commits detected", "Mergeability status pending", "Conflicts detected",
     "Cannot merge", "Merge failed", "Merged by nylbot-merge"}

\* C15: the stale-dismissal warning is posted at most once; once the loop over
\* the reviews is over it is pending or posted exactly when a dismissal failed,
\* and it is built from dismissFailures, which holds one line for each
\* dismissal that failed (the reviewer of that dismissal) and is complete by
\* then; when every dismissal succeeded or none was attempted it is never
\* posted; and no comment announces a dismissal that succeeded.
C15_StaleWarningOnceIffDismissalFailed ==
    /\ [](/\ TimesPosted(StaleHeading) <= 1
          /\ Posted \subseteq Headings
          /\ (pc = "postComment" /\ comment.heading = StaleHeading) =>
                /\ dismissFailures # << >>
                /\ reviewIdx = 0
                /\ checks = << >>
                /\ StaleHeading \notin Posted
                /\ comment.returns = NoResult
          /\ (StaleHeading \in Posted /\ pc # "threw") =>
                dismissFailures # << >> /\ checks # << >>
          /\ checks # << >> => (StaleHeading \in Posted <=> dismissFailures # << >>)
          /\ (checks = << >> /\ pc \in {"postComment", "done"}) => dismissFailures = << >>
                \/ (pc = "postComment" /\ comment.heading = StaleHeading))
    /\ [][ /\ (dismissFailures' # dismissFailures /\ pc' # "threw") =>
                /\ pc = "dismissReview"
                /\ dismissFailures' = Append(dismissFailures, review.login)
           /\ (pc = "dismissReview" /\ dismissFailures' = dismissFailures /\ pc' = "postComment") =>
                (comment'.heading = StaleHeading <=> dismissFailures # << >>)
         ]_vars

\* C15: two dismissals failed, and one warning was posted
C15_Witness ==
    /\ pc = "done"
    /\ Len(dismissFailures) = 2
    /\ TimesPosted(StaleHeading) = 1

-----------------------------------------------------------------------------
(* determineMergeMethod on its own: every pair of branch names *)

\* Branch names: the release prefix itself, names that hold a prefix or the
\* develop name elsewhere than at their start, "develop-2", the empty name
MethodHeadRefs ==
    { << "release/", "1.0" >>, << "release/" >>, << "fix/sync/", "1" >>,
      << "feature/", "x" >>, << "feature/", "release/" >>, << "release" >>,
      << "develop" >>, << "main" >>, << >> }

MethodBaseRefs ==
    { << "develop" >>, << "develop", "-2" >>, << "feature/", "develop" >>,
      << "release/", "1.0" >>, << "release/" >>, << "release" >>,
      << "fix/sync/", "1" >>, << "main" >>, << >> }

InitMethod ==
    /\ host = [headSha |-> 1, mergeable |-> Null, mergeableState |-> "unknown",
               merged |-> FALSE, state |-> "open", locked |-> FALSE, draft |-> FALSE,
               baseRef |-> << >>, headRepo |-> NotRead]
    /\ mergedSha = 0
    /\ pc = "determineMergeMethod"
    /\ actor = NoActor
    /\ mergeOptions = NoCommand
    /\ \E headRef \in MethodHeadRefs, baseRef \in MethodBaseRefs :
          prData = [NoPrData EXCEPT !.headRef = headRef, !.baseRef = baseRef]
    /\ prStateChecks = << >>
    /\ threadsCheck = NoCheck
    /\ reviewIdx = 0
    /\ review = NoReview
    /\ permissionCache = NoCache
    /\ validApprovals = 0
    /\ dismissFailures = << >>
    /\ checks = << >>
    /\ approvalOverridden = FALSE
    /\ mergeMethodResult = NoMethod
    /\ originalHeadSha = 0
    /\ retries = 0
    /\ comment = NoComment
    /\ comments = << >>
    /\ lastCall = "none"
    /\ fetches = 0
    /\ sleeps = 0
    /\ mergeCalls = << >>
    /\ result = NoResult
    /\ commits = << >>
    /\ commitBody = << >>
    /\ core = RunningCore
    /\ config = parseConfig(core.inputs).config
    /\ octokit = TRUE

\* action.ts 283: the call of determineMergeMethod
ResolveMergeMethod ==
    /\ pc = "determineMergeMethod"
    /\ mergeMethodResult' = determineMergeMethod(prData.headRef, prData.baseRef)
    /\ pc' = "resolved"
    /\ UNCHANGED << host, mergedSha, actor, mergeOptions, prData, prStateChecks,
                    threadsCheck, reviewIdx, review, permissionCache, validApprovals,
                    dismissFailures, checks, approvalOverridden, originalHeadSha,
                    retries, comment, comments, lastCall, fetches, sleeps, mergeCalls,
                    result >>
    /\ UNCHANGED runVars
    /\ UNCHANGED bodyVars

NextMethod == ResolveMergeMethod

SpecMethod == InitMethod /\ [][NextMethod]_vars

IsRelease(ref) == ref # << >> /\ ref[1] = "release/"
IsSync(ref) == ref # << >> /\ ref[1] = "fix/sync/"
IsDevelop(ref) == ref = << "develop" >>

\* C16: for every head and base name the resolver returns a method, the same
\* for the same names, by the first rule that matches: release head -> merge,
\* sync head -> merge, release base -> squash, base exactly develop -> squash,
\* otherwise merge; a head rule wins over every base rule (a release head into
\* develop gives merge), and a base that only begins with develop gives merge.
C16_MergeMethodPrecedence ==
    pc = "resolved" =>
        LET h == prData.headRef
            b == prData.baseRef
            m == mergeMethodResult
        IN  /\ m.method \in {"merge", "squash"}
            /\ m = determineMergeMethod(h, b)
            /\ m.reason = "head is a release branch" <=> IsRelease(h)
            /\ m.reason = "head is a sync branch" <=> (~IsRelease(h) /\ IsSync(h))
            /\ m.reason = "base is a release branch" <=>
                  (~IsRelease(h) /\ ~IsSync(h) /\ IsRelease(b))
            /\ m.reason = "base is develop" <=>
                  (~IsRelease(h) /\ ~IsSync(h) /\ ~IsRelease(b) /\ IsDevelop(b))
            /\ m.reason = "default" <=>
                  (~IsRelease(h) /\ ~IsSync(h) /\ ~IsRelease(b) /\ ~IsDevelop(b))
            /\ m.method = "squash" <=>
                  m.reason \in {"base is a release branch", "base is develop"}
            /\ (IsRelease(h) \/ IsSync(h)) => m.method = "merge"
            /\ (h = << "release/", "1.0" >> /\ b = << "develop" >>) => m.method = "merge"
            /\ b = << "develop", "-2" >> => m.reason # "base is develop"

\* C16: a release head into develop was resolved, by the head rule
C16_Witness ==
    /\ pc = "resolved"
    /\ prData.headRef = << "release/", "1.0" >>
    /\ prData.baseRef = << "develop" >>
    /\ mergeMethodResult = [method |-> "merge", reason |-> "head is a release branch"]

-----------------------------------------------------------------------------
(* The merge call *)

\* The host refused the merge call
MergeRefused == mergeCalls # << >> /\ ~Last(mergeCalls).success

\* The message is "Merge failed: " followed by the error text
CarriesError(message, error) ==
    \/ error = "Head branch was modified" /\ message = "Merge failed: Head branch was modified"
    \/ error = "Pull Request is not mergeable" /\ message = "Merge failed: Pull Request is not mergeable"
    \/ error = "Unknown error" /\ message = "Merge failed: Unknown error"

\* C17: an invocation makes at most one merge call; when the host refuses it,
\* the next thing awaited is the 'Merge failed' comment, which carries the
\* error text of the refusal and returns failed with that text in its message;
\* nothing else is called afterwards, nothing is merged, and the returned
\* result is that failure.
C17_RefusedMergeFailsWithHostError ==
    /\ Len(mergeCalls) <= 1
    /\ MergeRefused =>
          /\ pc \in {"postComment", "done", "threw"}
          /\ lastCall \in {"mergePullRequest", "postComment"}
          /\ mergedSha = 0
          /\ TimesPosted("Merged by nylbot-merge") = 0
          /\ pc = "postComment" =>
                /\ comment.heading = "Merge failed"
                /\ comment.detail = Last(mergeCalls).error
                /\ comment.returns.status = "failed"
                /\ CarriesError(comment.returns.message, Last(mergeCalls).error)
                /\ lastCall = "mergePullRequest"
                /\ "Merge failed" \notin Posted
          /\ pc = "done" =>
                /\ Last(comments) = "Merge failed"
                /\ TimesPosted("Merge failed") = 1
                /\ result.status = "failed"
                /\ CarriesError(result.message, Last(mergeCalls).error)
    /\ "Merge failed" \in Posted => MergeRefused

\* C17: the host refused the merge because the head had moved, and the
\* invocation returned failed with the host's text
C17_Witness ==
    /\ pc = "done"
    /\ Len(mergeCalls) = 1
    /\ Last(mergeCalls).error = "Head branch was modified"
    /\ Last(comments) = "Merge failed"
    /\ result = Result("failed", "Merge failed: Head branch was modified")

-----------------------------------------------------------------------------
(* Failures of remote calls *)

\* The four outcomes of ActionResult
Outcomes == {"merged", "skipped", "failed", "already_merged"}

\* C18 as stated: no exception leaves executeAction, and every execution that
\* has ended has returned one of the four outcomes with a message, so that
\* run() sets the result output and never reports a rejected remote call
\* through setFailed.
C18_AsStated ==
    /\ pc # "threw"
    /\ core.failed # HttpError
    /\ pc = "done" => result.status \in Outcomes /\ result.message # "none"

\* The awaits whose rejection github-api.ts catches
CaughtAwaits == {"addReaction", "getCollaboratorPermission", "getReviewerPermission",
                 "dismissReview"}

\* The actor's permission lookup was rejected by the host
ActorLookupRejected ==
    lastCall = Rejected("getCollaboratorPermission") /\ prData = NoPrData

\* C19: the reaction, a permission lookup and a dismissal never end the
\* invocation, whether the host call succeeds or rejects: the step that
\* follows them leaves executeAction suspended at a further await, with no
\* failure reported.  A rejected reaction changes nothing but the log; a
\* rejected lookup of the actor gives permission 'none' and the 'Permission
\* denied' comment; a rejected lookup of a reviewer caches 'none' and that
\* reviewer's approval adds nothing to the tally; a failed dismissal appends
\* one failure line naming the reviewer and adds nothing to the tally.
C19_CaughtFailuresNeverAbort ==
    /\ [](/\ CaughtAwaits \cap UncaughtAwaits = { }
          /\ (ActorLookupRejected /\ pc # "threw") =>
                /\ actor.permission = "none"
                /\ pc = "postComment"
                /\ comment.heading = "Permission denied"
                /\ comment.returns = Result("failed", "Insufficient permissions")
                /\ fetches = 0)
    /\ [][ /\ pc \in CaughtAwaits =>
                /\ pc' \notin {"threw", "done"}
                /\ core' = core
                /\ result' = result
                /\ validApprovals' = validApprovals \/ pc' = "postComment"
           /\ (pc = "addReaction" /\ lastCall' = Rejected("addReaction")) =>
                /\ pc' \in {"getCollaboratorPermission", "postComment"}
                /\ pc' = "getCollaboratorPermission" <=>
                      (mergeOptions.matched
                       /\ hasValidAuthorAssociation(actor'.authorAssociation))
           /\ (pc = "getReviewerPermission"
               /\ lastCall' = Rejected("getCollaboratorPermission")) =>
                /\ pc' = "review"
                /\ review' = review
                /\ permissionCache'[review.login] = "none"
           /\ (LeavesReview /\ pc = "review" /\ review.login \in Logins
               /\ permissionCache[review.login] = "none") =>
                validApprovals' = validApprovals
           /\ (pc = "dismissReview" /\ dismissFailures' # dismissFailures) =>
                /\ dismissFailures' = Append(dismissFailures, review.login)
                /\ validApprovals' = validApprovals
                /\ pc' \in {"review", "postComment"}
         ]_vars

\* C19: the lookup of the actor's permission was rejected, and the invocation
\* goes on to post 'Permission denied'
C19_Witness ==
    /\ ActorLookupRejected
    /\ pc = "postComment"
    /\ comment.heading = "Permission denied"

-----------------------------------------------------------------------------
(* run() up to the call of executeAction (main.ts 136-143, 165-173) *)

\* Values of the mergeable-retry-count input: absent, the bounds and their
\* neighbours, a negative number, no number, a fraction, digits followed by letters
RetryCountInputs ==
    { << >>, << "1" >>, << "2", "0" >>, << "5" >>, << "0" >>, << "2", "1" >>,
      << "-", "5" >>, << "1", "0", "0" >>, << "a", "b", "c" >>,
      << "3", ".", "5" >>, << "5", "a", "b", "c" >> }

RetryIntervalInputs ==
    { << >>, << "1" >>, << "6", "0" >>, << "1", "0" >>, << "0" >>, << "6", "1" >>,
      << "a", "b", "c" >>, << "1", ".", "5" >> }

InitRun ==
    /\ host = [headSha |-> 1, mergeable |-> Null, mergeableState |-> "unknown",
               merged |-> FALSE, state |-> "open", locked |-> FALSE, draft |-> FALSE,
               baseRef |-> << >>, headRepo |-> NotRead]
    /\ mergedSha = 0
    /\ pc = "run"
    /\ actor = NoActor
    /\ mergeOptions = NoCommand
    /\ prData = NoPrData
    /\ prStateChecks = << >>
    /\ threadsCheck = NoCheck
    /\ reviewIdx = 0
    /\ review = NoReview
    /\ permissionCache = NoCache
    /\ validApprovals = 0
    /\ dismissFailures = << >>
    /\ checks = << >>
    /\ approvalOverridden = FALSE
    /\ mergeMethodResult = NoMethod
    /\ originalHeadSha = 0
    /\ retries = 0
    /\ comment = NoComment
    /\ comments = << >>
    /\ lastCall = "none"
    /\ fetches = 0
    /\ sleeps = 0
    /\ mergeCalls = << >>
    /\ result = NoResult
    /\ commits = << >>
    /\ commitBody = << >>
    /\ \E retryCountInput \in RetryCountInputs, retryIntervalInput \in RetryIntervalInputs :
          core = [inputs |-> [mergeableRetryCount |-> retryCountInput,
                              mergeableRetryInterval |-> retryIntervalInput],
                  failed |-> NoFailure, outputs |-> NoOutputs, summary |-> "none"]
    /\ config = NoConfig
    /\ octokit = FALSE

\* main.ts 137-139, 165-173: parseConfig throws, and the catch calls setFailed
RunRejectsConfig ==
    /\ pc = "run"
    /\ parseConfig(core.inputs).throws
    /\ core' = SetFailed(core, parseConfig(core.inputs).error)
    /\ pc' = "failed"
    /\ UNCHANGED << host, mergedSha, actor, mergeOptions, prData, prStateChecks,
                    threadsCheck, reviewIdx, review, permissionCache, validApprovals,
                    dismissFailures, checks, approvalOverridden, mergeMethodResult,
                    originalHeadSha, retries, comment, comments, lastCall, fetches,
                    sleeps, mergeCalls, result, config, octokit >>
    /\ UNCHANGED bodyVars

\* main.ts 137-143: the configuration is parsed, the client is created and
\* executeAction is called
RunCallsExecuteAction ==
    /\ pc = "run"
    /\ ~parseConfig(core.inputs).throws
    /\ config' = parseConfig(core.inputs).config
    /\ octokit' = TRUE
    /\ pc' = "start"
    /\ UNCHANGED << host, mergedSha, actor, mergeOptions, prData, prStateChecks,
                    threadsCheck, reviewIdx, review, permissionCache, validApprovals,
                    dismissFailures, checks, approvalOverridden, mergeMethodResult,
                    originalHeadSha, retries, comment, comments, lastCall, fetches,
                    sleeps, mergeCalls, result, core >>
    /\ UNCHANGED bodyVars

NextRun == RunRejectsConfig \/ RunCallsExecuteAction

SpecRun == InitRun /\ [][NextRun]_vars

\* The string is a decimal integer: digits, after an optional minus sign
RECURSIVE AllDigits(_)
AllDigits(string) ==
    string = << >> \/ (IsDigit(Head(string)) /\ AllDigits(Tail(string)))

IsInteger(string) ==
    /\ string # << >>
    /\ IF Head(string) = "-" THEN Tail(string) # << >> /\ AllDigits(Tail(string))
                             ELSE AllDigits(string)

\* The string is an integer between min and max
IntegerIn(string, min, max) ==
    IsInteger(string) /\ parseInt(string).n >= min /\ parseInt(string).n <= max

\* The inputs run() works with: what was given, or the default
RetryCountInput == OrDefault(core.inputs.mergeableRetryCount, << "5" >>)
RetryIntervalInput == OrDefault(core.inputs.mergeableRetryInterval, << "1", "0" >>)

\* setFailed was called for this input, naming its value and this range
FailedNaming(input, string, min, max) ==
    /\ core.failed.input = input
    /\ core.failed.min = min /\ core.failed.max = max
    /\ \/ core.failed.error = "is not a valid integer" /\ core.failed.quoted = string
       \/ core.failed.error = "is out of range" /\ IsInteger(string)
          /\ core.failed.number = parseInt(string).n

\* C20 as stated: once run() is past its synchronous start, a retry count that
\* is not an integer in 1..20, or a retry interval that is not an integer in
\* 1..60, has been reported through setFailed with the offending value and the
\* range, no client was created, no call was made and no output is set; and
\* the boundary values 1, 20 and 1, 60 are accepted.
C20_AsStated ==
    pc # "run" =>
        /\ ~IntegerIn(RetryCountInput, 1, 20) =>
              /\ FailedNaming("mergeable-retry-count", RetryCountInput, 1, 20)
              /\ ~octokit /\ lastCall = "none" /\ core.outputs = NoOutputs
        /\ (IntegerIn(RetryCountInput, 1, 20) /\ ~IntegerIn(RetryIntervalInput, 1, 60)) =>
              /\ FailedNaming("mergeable-retry-interval", RetryIntervalInput, 1, 60)
              /\ ~octokit /\ lastCall = "none" /\ core.outputs = NoOutputs
        /\ (RetryCountInput \in {<< "1" >>, << "2", "0" >>}
            /\ RetryIntervalInput \in {<< "1" >>, << "6", "0" >>}) =>
              /\ core.failed = NoFailure
              /\ octokit
              /\ config.mergeableRetryCount = parseInt(RetryCountInput).n
              /\ config.mergeableRetryInterval = parseInt(RetryIntervalInput).n

-----------------------------------------------------------------------------
(* The requests of an invocation *)

\* C21 as stated: the merge call is the only request that changes the state
\* of the host (no comment is created, no review dismissed), it is issued at
\* most once, and no request follows it.
C21_AsStated ==
    /\ Len(mergeCalls) <= 1
    /\ lastCall \notin {"postComment", "dismissReview"}
    /\ mergeCalls # << >> => lastCall = "mergePullRequest"

\* C21: the merge call is the only request by which an invocation merges the
\* PR; it is issued at most once; every fetch, listing, dismissal and wait
\* precedes it, so that an invocation interrupted before it has merged nothing;
\* and the only request that follows it is the one comment that reports its
\* outcome ('Merged by nylbot-merge' or 'Merge failed'), after which the
\* invocation returns.
C21_MergeOnceThenOnlyItsReport ==
    /\ [](/\ Len(mergeCalls) <= 1
          /\ mergeCalls = << >> => mergedSha = 0
          /\ mergeCalls # << >> =>
                /\ pc \in {"postComment", "done", "threw"}
                /\ lastCall \in {"mergePullRequest", "postComment"}
                /\ TimesPosted("Merged by nylbot-merge") + TimesPosted("Merge failed") <= 1
                /\ pc = "postComment" =>
                      /\ lastCall = "mergePullRequest"
                      /\ comment.heading = (IF Last(mergeCalls).success
                                              THEN "Merged by nylbot-merge"
                                              ELSE "Merge failed")
                      /\ comment.returns # NoResult
                /\ pc = "done" =>
                      /\ lastCall = "postComment"
                      /\ Last(comments) = (IF Last(mergeCalls).success
                                             THEN "Merged by nylbot-merge"
                                             ELSE "Merge failed"))
    /\ [][ /\ mergedSha' # mergedSha =>
                /\ pc = "mergePullRequest"
                /\ ~host.merged /\ host'.merged
                /\ mergeCalls = << >>
                /\ Len(mergeCalls') = 1
                /\ mergeCalls'[1].success
           /\ mergeCalls' # mergeCalls => pc = "mergePullRequest"
         ]_vars

\* C21: the checks were reported, the PR was merged, and the merge was
\* reported by the comment that follows the merge call
C21_Witness ==
    /\ pc = "done"
    /\ TimesPosted("Merge checks passed") = 1
    /\ Len(mergeCalls) = 1
    /\ Last(mergeCalls).success
    /\ Last(comments) = "Merged by nylbot-merge"
    /\ lastCall = "postComment"

-----------------------------------------------------------------------------
(* Events that are not commands *)

\* The comment bodies that do not start, after spaces or tabs, with a trigger
WithoutTrigger == { << "hello" >>, << "nl", "/nylbot", "sp", "merge" >> }

\* The comment bodies that start with a trigger and are no '/nylbot merge'
\* command: an extra argument, a newline, another subcommand, an unknown
\* flag, another bot
Malformed ==
    { << "/nylbot", "sp", "merge", "sp", "now" >>,
      << "/nylbot", "sp", "merge", "nl" >>,
      << "/nylbot", "sp", "help" >>,
      << "/nylbot", "sp", "merge", "sp", "--force" >>,
      << "/xyzbot", "sp", "merge" >> }

\* executeAction has read the event, and the event is none it acts on
SkippedEvent ==
    /\ actor.eventName # Undefined
    /\ \/ actor.eventName # "issue_comment"
       \/ ~actor.isPullRequest
       \/ actor.userType = "Bot"
       \/ actor.commentBody \in WithoutTrigger

\* C22: an event that is not issue_comment, a comment that is not on a PR, a
\* comment by a Bot, or a body that does not start with the trigger makes the
\* invocation return skipped, with the message of the first of these tests
\* that applies, and with no remote call issued: no reaction, no comment, no
\* fetch, no merge.  Every other event gets the reaction requested.
C22_SkippedEventsIssueNoCall ==
    /\ SkippedEvent =>
          /\ pc = "done"
          /\ result.status = "skipped"
          /\ result.message =
                (IF actor.eventName # "issue_comment"
                    THEN "This action only runs on issue_comment events"
                 ELSE IF ~actor.isPullRequest THEN "Comment is not on a PR, skipping"
                 ELSE IF actor.userType = "Bot" THEN "Comment is from a bot"
                 ELSE "Command not matched")
          /\ lastCall = "none"
          /\ comments = << >>
          /\ fetches = 0 /\ sleeps = 0
          /\ mergeCalls = << >> /\ mergedSha = 0
          /\ core.outputs.result = "skipped"
    /\ (actor.eventName # Undefined /\ ~SkippedEvent) =>
          pc = "addReaction" \/ lastCall # "none"

\* C22: a '/nylbot merge' comment that begins with a newline was skipped
C22_Witness ==
    /\ pc = "done"
    /\ actor.eventName = "issue_comment"
    /\ actor.isPullRequest
    /\ actor.userType = "User"
    /\ actor.commentBody = << "nl", "/nylbot", "sp", "merge" >>
    /\ result = Result("skipped", "Command not matched")

\* executeAction has read the event: a comment by a user on a PR that starts
\* with a trigger and is no command
UnrecognizedEvent ==
    /\ actor.eventName = "issue_comment"
    /\ actor.isPullRequest
    /\ actor.userType = "User"
    /\ actor.commentBody \in Malformed

-----------------------------------------------------------------------------
(* Fork PRs and merged PRs *)

\* The first fetch has read the head repository of the PR, and it is a fork:
\* its fork flag is set, its owner is not the owner of the base repository,
\* or it was deleted
ForkPr ==
    /\ host.headRepo.read
    /\ \/ ~host.headRepo.exists
       \/ host.headRepo.fork
       \/ host.headRepo.ownerId # BaseOwnerId

\* C24: for a PR from a fork the invocation awaits the 'Fork PR not supported'
\* comment right after the first fetch and returns failed with that message;
\* it fetches once, evaluates no check, and issues no thread count, review
\* listing, dismissal or merge call.
C24_ForkPrRejected ==
    ForkPr =>
        /\ pc \in {"postComment", "done", "threw"}
        /\ pc # "threw" => prData.isFork
        /\ fetches = 1
        /\ lastCall \in {"fetchPullRequestData", "postComment"}
        /\ pc = "postComment" =>
              /\ lastCall = "fetchPullRequestData"
              /\ comment = [heading |-> "Fork PR not supported", detail |-> "",
                            returns |-> Result("failed", "Fork PR not supported")]
        /\ pc = "done" =>
              /\ Last(comments) = "Fork PR not supported"
              /\ result = Result("failed", "Fork PR not supported")
        /\ prStateChecks = << >> /\ threadsCheck = NoCheck /\ checks = << >>
        /\ reviewIdx = 0 /\ validApprovals = 0 /\ dismissFailures = << >>
        /\ mergeCalls = << >> /\ mergedSha = 0

\* C24: a PR whose head repository was deleted was rejected as a fork PR
C24_Witness ==
    /\ pc = "done"
    /\ host.headRepo.read
    /\ ~host.headRepo.exists
    /\ result = Result("failed", "Fork PR not supported")

\* The first snapshot is in hand, of a PR that is no fork and is merged
FirstSnapshotMerged ==
    fetches = 1 /\ prData # NoPrData /\ ~prData.isFork /\ prData.merged

\* C25: the first snapshot reports what the host holds; when it is of a PR
\* that is no fork and is merged, the invocation awaits the 'Already merged'
\* comment and returns already_merged; no check is evaluated, no thread count,
\* review listing, dismissal or merge call is issued; and already_merged is
\* returned in no other case.
C25_AlreadyMergedReported ==
    /\ [](/\ FirstSnapshotMerged =>
                /\ pc \in {"postComment", "done"}
                /\ lastCall \in {"fetchPullRequestData", "postComment"}
                /\ pc = "postComment" =>
                      /\ lastCall = "fetchPullRequestData"
                      /\ comment = [heading |-> "Already merged", detail |-> "",
                                    returns |-> Result("already_merged", "PR already merged")]
                /\ pc = "done" =>
                      /\ Last(comments) = "Already merged"
                      /\ result = Result("already_merged", "PR already merged")
                      /\ core.outputs.result = "already_merged"
                /\ prStateChecks = << >> /\ threadsCheck = NoCheck /\ checks = << >>
                /\ reviewIdx = 0 /\ validApprovals = 0 /\ dismissFailures = << >>
                /\ mergeCalls = << >> /\ mergedSha = 0
          /\ (result.status = "already_merged" \/ "Already merged" \in Posted) =>
                FirstSnapshotMerged)
    /\ [][(pc = "fetchPullRequestData" /\ pc' \notin {pc, "threw"}) =>
              /\ prData'.merged = host.merged
              /\ fetches' = 1]_vars

\* C25: the PR was merged before the command, and the invocation said so
C25_Witness ==
    /\ pc = "done"
    /\ FirstSnapshotMerged
    /\ host.merged
    /\ comments = << "Already merged" >>
    /\ result.status = "already_merged"

-----------------------------------------------------------------------------
(* Failures are explained *)

\* The heading of the comment that states the reason of a failed result
ReasonPosted(message, heading) ==
    \/ /\ message \in {"Invalid author association", "Insufficient permissions"}
       /\ heading = "Permission denied"
    \/ message = "Fork PR not supported" /\ heading = "Fork PR not supported"
    \/ message = "Merge checks failed" /\ heading = "Merge checks failed"
    \/ /\ message \in {"TOCTOU violation", "TOCTOU violation during retry"}
       /\ heading = "New commits detected"
    \/ /\ message = "Not mergeable"
       /\ heading \in {"Mergeability status pending", "Conflicts detected", "Cannot merge"}
    \/ /\ mergeCalls # << >>
       /\ CarriesError(message, Last(mergeCalls).error)
       /\ heading = "Merge failed"

\* C26: an invocation that has returned failed has posted, as its last call
\* before returning, the comment that states the reason of that failure:
\* permission denied, fork not supported, merge checks failed, new commits
\* detected, not mergeable (pending, conflicts, or other), or merge failed;
\* the result and the comment come from the same step.
C26_FailuresAreCommented ==
    /\ []((pc = "done" /\ result.status = "failed") =>
            /\ comments # << >>
            /\ lastCall = "postComment"
            /\ ReasonPosted(result.message, Last(comments))
            /\ core.outputs.result = "failed")
    /\ [][result' # result =>
            \/ pc = "start" /\ result'.status = "skipped"
            \/ /\ pc = "postComment"
               /\ comments' = Append(comments, comment.heading)
               /\ result' = comment.returns]_vars

\* C26: the merge checks failed, and the invocation returned failed after the
\* 'Merge checks failed' comment
C26_Witness ==
    /\ pc = "done"
    /\ result = Result("failed", "Merge checks failed")
    /\ Last(comments) = "Merge checks failed"

-----------------------------------------------------------------------------
(* Two invocations for one PR *)

\* The PR is merged, and not by this invocation
MergedByOther == host.merged /\ mergedSha = 0

-----------------------------------------------------------------------------
(* Results and outputs *)

\* C28: a result executeAction has returned has one of the four statuses and
\* carries a mergeMethod exactly when the status is merged, and then it is the
\* method of the merge call the host accepted; run() sets the result output to
\* the status and the merge_method output only for merged; before the return,
\* and when executeAction threw, no output is set; and setFailed is not called
\* for a returned result, whatever its status: only a rejected summary write
\* reaches it after a return.
C28_ResultsAndOutputs ==
    /\ pc = "done" =>
          /\ result.status \in Outcomes
          /\ result.mergeMethod # Undefined <=> result.status = "merged"
          /\ result.status = "merged" =>
                /\ Len(mergeCalls) = 1
                /\ mergeCalls[1].success
                /\ result.mergeMethod = mergeCalls[1].method
                /\ result.mergeMethod \in {"merge", "squash"}
          /\ core.outputs.result = result.status
          /\ core.outputs.merge_method =
                (IF result.status = "merged" THEN result.mergeMethod ELSE "none")
          /\ core.failed # NoFailure <=> core.summary = "rejected"
          /\ core.failed \in {NoFailure, SummaryError}
    /\ pc # "done" => core.outputs = NoOutputs /\ result = NoResult
    /\ pc = "threw" => core.failed = HttpError

\* C28: a failed result was returned, the outputs are set, the summary is
\* written, and setFailed was not called
C28_Witness ==
    /\ pc = "done"
    /\ result.status = "failed"
    /\ core.outputs = [result |-> "failed", merge_method |-> "none"]
    /\ core.summary = "written"
    /\ core.failed = NoFailure

-----------------------------------------------------------------------------
(* The commit message *)

\* The number of lines of a commit body that are the given line
Occurrences(body, line) == Cardinality({ i \in 1..Len(body) : body[i] = line })

\* C29: for every merge call, with either method, the commit body sent holds
\* the EXCEPTIONAL MERGE marker line exactly when the command carried the
\* override flag and no valid approval was counted, and then once, as the last
\* line after a blank line; and it always holds the Merged-by line, once
C29_MarkerAndAttribution ==
    [][mergeCalls' # mergeCalls =>
          LET call == mergeCalls'[Len(mergeCalls')]
              exceptional == mergeOptions.overrideApprovalRequirement /\ validApprovals = 0
              n == Len(call.body)
          IN  /\ call.method \in {"merge", "squash"}
              /\ Includes(call.body, ExceptionalMergeLine) <=> exceptional
              /\ Occurrences(call.body, MergedByLine) = 1
              /\ Occurrences(call.body, ExceptionalMergeLine) <= 1
              /\ IF exceptional
                   THEN /\ n >= 3
                        /\ call.body[n] = ExceptionalMergeLine
                        /\ call.body[n - 1] = BlankLine
                        /\ call.body[n - 2] = MergedByLine
                   ELSE call.body[n] = MergedByLine
              /\ call.method = "merge" =>
                    /\ call.body[1] = Line("", Text(prData.title), "")
                    /\ call.body[2] = BlankLine
                    /\ n = IF exceptional THEN 5 ELSE 3]_vars

\* C29: a squash merge call was sent with the marker and the attribution, the
\* flag having been supplied and no valid approval counted
C29_Witness ==
    /\ pc = "postComment"
    /\ Len(mergeCalls) = 1
    /\ mergeCalls[1].method = "squash"
    /\ mergeOptions.overrideApprovalRequirement
    /\ validApprovals = 0
    /\ Includes(mergeCalls[1].body, ExceptionalMergeLine)
    /\ Includes(mergeCalls[1].body, MergedByLine)

-----------------------------------------------------------------------------
(* The commit body of a squash, over every listing of at most MaxCommits   *)
(* commits (action.ts 396-441)                                             *)

\* Just before the commit listing of a squash: the method is resolved, the
\* approval requirement was overridden or not
InitBody ==
    /\ host = [headSha |-> 1, mergeable |-> TRUE, mergeableState |-> "clean",
               merged |-> FALSE, state |-> "open", locked |-> FALSE, draft |-> FALSE,
               baseRef |-> << "develop" >>, headRepo |-> NotRead]
    /\ mergedSha = 0
    /\ pc = "fetchPullRequestCommits"
    /\ actor = NoActor
    /\ mergeOptions = NoCommand
    /\ prData = [NoPrData EXCEPT !.headRef = << "feature/", "x" >>,
                                 !.baseRef = << "develop" >>]
    /\ prStateChecks = << >>
    /\ threadsCheck = NoCheck
    /\ reviewIdx = 0
    /\ review = NoReview
    /\ permissionCache = NoCache
    /\ validApprovals = 0
    /\ dismissFailures = << >>
    /\ checks = << >>
    /\ approvalOverridden \in BOOLEAN
    /\ mergeMethodResult = determineMergeMethod(prData.headRef, prData.baseRef)
    /\ originalHeadSha = 1
    /\ retries = 0
    /\ comment = NoComment
    /\ comments = << >>
    /\ lastCall = "fetchPullRequestData"
    /\ fetches = 0
    /\ sleeps = 0
    /\ mergeCalls = << >>
    /\ result = NoResult
    /\ commits = << >>
    /\ commitBody = << >>
    /\ core = RunningCore
    /\ config = parseConfig(core.inputs).config
    /\ octokit = TRUE

\* action.ts 403-440 for any listing the host may return
ComposeSquashBody == ListCommits(CommitListings(MaxCommits))

NextBody == ComposeSquashBody

SpecBody == InitBody /\ [][NextBody]_vars

\* The lines of a body of the given kind, in the order of the body
LinesOf(body, kind) == SelectSeq(body, LAMBDA line : line.kind = kind)

\* A block followed by its blank line, nothing for an empty block
BlockThenBlank(block) == IF Len(block) = 0 THEN << >> ELSE block \o << BlankLine >>

\* The commits whose message has a first line
TitledCommits == SelectSeq(commits, LAMBDA c : firstLine(c.message) # "")

\* Whether the author of a commit has a name and an address
Credited(c) == c.author.present /\ c.author.name # "" /\ c.author.email # ""

\* The co-author line of a commit
CreditOf(c) == Line("Co-authored-by:", c.author.name, c.author.email)

\* The position of the first commit credited with the line
FirstCredit(line) ==
    CHOOSE i \in 1..Len(commits) :
        /\ Credited(commits[i]) /\ CreditOf(commits[i]) = line
        /\ \A j \in 1..(i - 1) : ~(Credited(commits[j]) /\ CreditOf(commits[j]) = line)

-----------------------------------------------------------------------------
(* The readiness check *)

\* Whether s holds the elements of t in the order of t, and nothing else
\* than elements of t
InOrderOf(s, t) ==
    /\ \A i \in 1..Len(s) : \E j \in 1..Len(t) : s[i] = t[j]
    /\ \A i, k \in 1..Len(s) :
          i < k => \E j, l \in 1..Len(t) : j < l /\ s[i] = t[j] /\ s[k] = t[l]

\* C31: whenever validatePRState is applied to a snapshot it returns exactly
\* one check, named 'PR is ready for review' and required; the check passes
\* exactly when the snapshot is open, unlocked and not a draft; its details
\* hold 'currently closed', 'currently locked', 'currently a draft', each
\* exactly when it applies, in this order; and the details are absent exactly
\* when the check passes
C31_ReadinessCheck ==
    [][prStateChecks' # prStateChecks /\ Len(prStateChecks') > 0 =>
          LET c == prStateChecks'[1]
              pr == prData'
              has(reason) == \E i \in 1..Len(c.details) : c.details[i] = reason
          IN  /\ Len(prStateChecks') = 1
              /\ c.name = "PR is ready for review"
              /\ ~c.optional
              /\ c.passed <=> (pr.state = "open" /\ ~pr.locked /\ ~pr.draft)
              /\ has("currently closed") <=> pr.state # "open"
              /\ has("currently locked") <=> pr.locked
              /\ has("currently a draft") <=> pr.draft
              /\ InOrderOf(c.details,
                           << "currently closed", "currently locked", "currently a draft" >>)
              /\ Len(c.details) = 0 <=> c.passed]_vars

\* C31: a closed, locked draft was validated and the check lists the three
\* reasons
C31_Witness ==
    /\ Len(prStateChecks) = 1
    /\ ~prStateChecks[1].passed
    /\ prStateChecks[1].details =
          << "currently closed", "currently locked", "currently a draft" >>
    /\ prData.state = "closed" /\ prData.locked /\ prData.draft

-----------------------------------------------------------------------------
(* The check list *)

\* The names of the checks, in the order of the list
CheckNames ==
    << "PR is ready for review",
       "All review conversations are resolved",
       "At least one valid approval from another user",
       "Mergeable state is clean",
       "PR title follows Conventional Commits" >>

\* The invocation is on the failing side of the gate
GateFailed == comment.heading = "Merge checks failed" \/ "Merge checks failed" \in Posted

\* C32: the check list of an invocation is the readiness check, the
\* conversations check, the approval check, the mergeable-state check and the
\* title check, in this order; the title check is optional and passes exactly
\* for a conventional title; and the gate fails exactly when one of the first
\* four checks is required and failed, whatever the title check says
C32_CheckListAndOptionalTitle ==
    checks # << >> =>
        /\ Len(checks) = 5
        /\ \A i \in 1..5 : checks[i].name = CheckNames[i]
        /\ checks[1] = prStateChecks[1]
        /\ checks[2] = threadsCheck
        /\ checks[5].optional
        /\ checks[5].passed <=> isConventionalCommitTitle(prData.title)
        /\ GateFailed <=> \E i \in 1..4 : ~checks[i].optional /\ ~checks[i].passed
        /\ AllPassed(checks) = AllPassed([checks EXCEPT ![5].passed = ~@])

\* C32: a PR whose title is not conventional was merged
C32_Witness ==
    /\ pc = "done"
    /\ result.status = "merged"
    /\ Len(checks) = 5
    /\ ~checks[5].passed
    /\ ~isConventionalCommitTitle(prData.title)

-----------------------------------------------------------------------------
(* The title test, over titles built from the parts of the format and over *)
(* every short sequence of tokens (constants.ts 57-83, validation.ts 30-32) *)

\* The most tokens of the titles that are enumerated token by token
MaxTitleTokens == 4

\* The tokens of the enumerated titles
TitleTokens == {"feat", "(", ")", "!", ":", " ", "x"}

\* The titles of at most n tokens
ShortTitles(n) == UNION { [1..k -> TitleTokens] : k \in 0..n }

\* Titles put together from text before the type, a type, a scope, a marker,
\* a colon, whitespace and a description, each present, absent or malformed
BuiltTitles ==
    { lead \o type \o scope \o marker \o colon \o gap \o description :
        lead \in { << >>, << "prefix", " " >>, << " " >> },
        type \in { << "feat" >>, << "ux" >>, << "feature" >>, << >> },
        scope \in { << >>, << "(", ")" >>, << "(", "scope", ")" >>, << "(", "!", ")" >>,
                    << "(", "scope", "!", ")" >>, << "(", "api", "/", "v2", ")" >>,
                    << " ", "(", "scope", ")" >>, << "(", "scope" >> },
        marker \in { << >>, << "!" >>, << " ", "!" >>, << "!", " " >> },
        colon \in { << ":" >>, << >> },
        gap \in { << >>, << " " >>, << "\t" >>, << " ", " " >> },
        description \in { << >>, << "add" >>, << "add", " ", "x" >>,
                          << "add", ":", "(", "x", ")", "!" >> } }

TitleInputs == BuiltTitles \cup ShortTitles(MaxTitleTokens)

\* A snapshot with the title to test
InitTitle ==
    /\ host = [headSha |-> 1, mergeable |-> "true", mergeableState |-> "clean",
               merged |-> FALSE, state |-> "open", locked |-> FALSE, draft |-> FALSE,
               baseRef |-> << "develop" >>, headRepo |-> NotRead]
    /\ mergedSha = 0
    /\ pc = "isConventionalCommitTitle"
    /\ actor = NoActor
    /\ mergeOptions = NoCommand
    /\ \E title \in TitleInputs : prData = [NoPrData EXCEPT !.title = title]
    /\ prStateChecks = << >>
    /\ threadsCheck = NoCheck
    /\ reviewIdx = 0
    /\ review = NoReview
    /\ permissionCache = NoCache
    /\ validApprovals = 0
    /\ dismissFailures = << >>
    /\ checks = << >>
    /\ approvalOverridden = FALSE
    /\ mergeMethodResult = NoMethod
    /\ originalHeadSha = 0
    /\ retries = 0
    /\ comment = NoComment
    /\ comments = << >>
    /\ lastCall = "none"
    /\ fetches = 0
    /\ sleeps = 0
    /\ mergeCalls = << >>
    /\ result = NoResult
    /\ commits = << >>
    /\ commitBody = << >>
    /\ core = RunningCore
    /\ config = parseConfig(core.inputs).config
    /\ octokit = TRUE

\* action.ts 274-280: the title is tested and the title check is built
TestTitle ==
    /\ pc = "isConventionalCommitTitle"
    /\ checks' = << ConventionalCommitsCheck(prData) >>
    /\ pc' = "titleChecked"
    /\ UNCHANGED << host, mergedSha, actor, mergeOptions, prData, prStateChecks,
                    threadsCheck, reviewIdx, review, permissionCache, validApprovals,
                    dismissFailures, approvalOverridden, mergeMethodResult,
                    originalHeadSha, retries, comment, comments, lastCall, fetches,
                    sleeps, mergeCalls, result >>
    /\ UNCHANGED runVars
    /\ UNCHANGED bodyVars

NextTitle == TestTitle

SpecTitle == InitTitle /\ [][NextTitle]_vars

\* The title starts with one of the 12 types, then has s tokens of scope (none,
\* or "(", at least one token that is neither "!" nor ")", and ")"), then m
\* markers "!", then the colon
HeadOfTitle(title, s, m) ==
    /\ Len(title) >= 2 + s + m
    /\ title[1] \in {"build", "chore", "ci", "docs", "feat", "fix", "perf", "refactor",
                     "revert", "style", "test", "ux"}
    /\ s = 0 \/ /\ s >= 3
                /\ title[2] = "("
                /\ title[1 + s] = ")"
                /\ \A k \in 3..s : title[k] # "!" /\ title[k] # ")"
    /\ m = 1 => title[2 + s] = "!"
    /\ title[2 + s + m] = ":"

\* <type>[(scope)][!]: <description>, the colon being followed by a space and
\* the description holding a character that is not whitespace
StatedForm(title) ==
    \E s \in 0..Len(title), m \in {0, 1} :
        /\ HeadOfTitle(title, s, m)
        /\ Len(title) >= 3 + s + m
        /\ title[3 + s + m] = " "
        /\ \E k \in (4 + s + m)..Len(title) : title[k] \notin {" ", "\t"}

\* The same with any whitespace, or none, between the colon and the description
FormWithAnyGap(title) ==
    \E s \in 0..Len(title), m \in {0, 1} :
        /\ HeadOfTitle(title, s, m)
        /\ \E k \in (3 + s + m)..Len(title) : title[k] \notin {" ", "\t"}

\* C33 as stated: the title test accepts exactly the titles of the form
\* <type>[(scope)][!]: <description>, with one of the 12 types, a non-empty
\* scope without "!" and ")", the marker directly before the colon, and a
\* description that holds a character that is not whitespace
C33_AsStated ==
    pc = "titleChecked" => (checks[1].passed <=> StatedForm(prData.title))

\* C33: what the title test does accept: the stated form with any whitespace,
\* or none, after the colon; it rejects an empty description, an empty scope, a
\* marker inside the scope and text before the type
C33_AcceptedTitles ==
    pc = "titleChecked" =>
        /\ checks[1].passed <=> FormWithAnyGap(prData.title)
        /\ StatedForm(prData.title) => checks[1].passed

\* C33: a title without a space after the colon was accepted
C33_Witness ==
    /\ pc = "titleChecked"
    /\ prData.title = << "feat", ":", "add" >>
    /\ checks[1].passed

-----------------------------------------------------------------------------
(* The permission cache *)

-----------------------------------------------------------------------------
(* After the host has accepted the merge *)

\* The host accepted a merge call of this invocation
MergeCallAccepted == \E i \in 1..Len(mergeCalls) : mergeCalls[i].success

\* C35 as stated: an invocation that has ended returned merged exactly when
\* its merge call was accepted by the host, whatever happened to the calls
\* after the merge call
C35_AsStated ==
    Returned => (result.status = "merged" <=> MergeCallAccepted)

\* C35: merged is returned only after an accepted merge call, and an accepted
\* merge call is followed by the merged comment alone; when that comment is
\* posted merged is returned, and when it is rejected no result is returned
C35_MergedOnlyIfAccepted ==
    /\ result.status = "merged" => MergeCallAccepted
    /\ MergeCallAccepted =>
          \/ pc = "postComment" /\ comment.heading = "Merged by nylbot-merge"
          \/ pc = "done" /\ result.status = "merged" /\ Last(comments) = "Merged by nylbot-merge"
          \/ pc = "threw" /\ result = NoResult /\ lastCall = "postComment"

\* C35: the host merged the PR, the merged comment was rejected, and the run
\* has failed without a result
C35_Witness ==
    /\ pc = "threw"
    /\ MergeCallAccepted
    /\ host.merged
    /\ result = NoResult
    /\ core.failed = HttpError

-----------------------------------------------------------------------------
(* Waiting for mergeability *)

\* C36: the mergeable-state check of the list passes exactly when the
\* validation snapshot's mergeableState is 'clean'; a retry sleep or a retry
\* re-fetch occurs only when that check has passed; and an invocation whose
\* validation snapshot has another mergeableState, pending mergeability
\* included, fetches once, never sleeps, and fails at the check gate
C36_RetryOnlyAfterCleanValidation ==
    /\ [][ /\ (checks' # checks /\ Len(checks') = 5) =>
                 /\ checks'[4].passed <=> prData.mergeableState = "clean"
                 /\ prData' = prData
                 /\ fetches = 1
           /\ (sleeps' # sleeps \/ retries' > retries
                  \/ pc' \in {"waitBeforeRetryMs", "retryFetch"}) =>
                 /\ Len(checks) = 5
                 /\ checks[4].passed
         ]_vars
    /\ [](Len(checks) = 5 /\ ~checks[4].passed =>
             /\ GateFailed
             /\ fetches = 1
             /\ sleeps = 0
             /\ retries = 0
             /\ pc \in {"postComment", "done"}
             /\ pc = "done" => result.status = "failed")

\* C36: the validation snapshot reported pending mergeability with the state
\* 'unknown', and the invocation has failed at the gate after one fetch and no
\* sleep
C36_Witness ==
    /\ pc = "done"
    /\ result = Result("failed", "Merge checks failed")
    /\ prData.mergeable = Null
    /\ prData.mergeableState = "unknown"
    /\ Len(checks) = 5
    /\ \A i \in {1, 2, 3} : checks[i].passed
    /\ ~checks[4].passed
    /\ fetches = 1
    /\ sleeps = 0

-----------------------------------------------------------------------------
(* The PR changes between validation and the pre-merge re-fetch *)

\* C37 as stated: the method sent in a merge call is the resolver's decision
\* for the head and base branch of the snapshot fetched last before the call
C37_AsStated ==
    [][mergeCalls' # mergeCalls =>
          mergeCalls'[Len(mergeCalls')].method =
              determineMergeMethod(prData.headRef, prData.baseRef).method]_vars

\* C37: the method is resolved once, from the head and base branch of the
\* validation snapshot when the check list is built, and the method sent in
\* the merge call is that decision, whatever the later snapshots say
C37_MethodOfValidationSnapshot ==
    [][ /\ (checks' # checks /\ Len(checks') = 5) =>
              mergeMethodResult' = determineMergeMethod(prData.headRef, prData.baseRef)
        /\ (mergeMethodResult' # mergeMethodResult /\ pc' # "threw") =>
              checks' # checks /\ Len(checks') = 5
        /\ mergeCalls' # mergeCalls =>
              mergeCalls'[Len(mergeCalls')].method = mergeMethodResult.method
      ]_vars

\* C37: the base branch was develop at validation and main at the pre-merge
\* re-fetch, the head being the same, and the PR was squashed onto main
C37_Witness ==
    /\ mergedSha = prData.headSha
    /\ originalHeadSha = prData.headSha
    /\ prData.headRef = << "feature/", "x" >>
    /\ prData.baseRef = << "main" >>
    /\ mergeMethodResult = [method |-> "squash", reason |-> "base is develop"]
    /\ Len(mergeCalls) = 1
    /\ mergeCalls[1].method = "squash"
    /\ mergeCalls[1].success

\* The PR of a snapshot or of the host is open, unlocked and not a draft
Ready(pr) == pr.state = "open" /\ ~pr.locked /\ ~pr.draft

\* C38 as stated: when a merge call is issued, the snapshot fetched last is
\* open, unlocked and not a draft, and a PR that is closed, locked or a draft
\* by then is not merged
C38_AsStated ==
    [][mergeCalls' # mergeCalls =>
          /\ Ready(prData)
          /\ mergeCalls'[Len(mergeCalls')].success => Ready(host)]_vars

\* C38: readiness is tested on the validation snapshot alone: the readiness
\* check is built from it and is not rebuilt, and of the snapshots fetched
\* later only the head commit and the mergeability are tested before the merge
\* call; the host itself refuses to merge a closed PR
C38_ReadinessOfValidationSnapshot ==
    [][ /\ (prStateChecks' # prStateChecks /\ pc' # "threw") =>
              pc = "fetchPullRequestData" /\ prStateChecks' = validatePRState(prData')
        /\ mergeCalls' # mergeCalls =>
              /\ Len(prStateChecks) = 1
              /\ prStateChecks[1].passed
              /\ prData.headSha = originalHeadSha
              /\ prData.mergeable = "true"
              /\ prData.mergeableState = "clean"
              /\ mergeCalls'[Len(mergeCalls')].success => host.state = "open"
      ]_vars

\* C38: the PR was locked between validation and the pre-merge re-fetch, the
\* head being the same, and was merged
C38_Witness ==
    /\ mergedSha = prData.headSha
    /\ originalHeadSha = prData.headSha
    /\ prData.locked
    /\ host.locked
    /\ prStateChecks[1].passed
    /\ Len(mergeCalls) = 1
    /\ mergeCalls[1].success

-----------------------------------------------------------------------------
(* When stale approvals are dismissed *)

\* C39: the first fetch is awaited only for an actor who passed the
\* association test and the permission test; a dismissal is attempted only
\* after that fetch, for a PR that is no fork and whose first snapshot was not
\* merged, before any check is aggregated; and a stale approval by another
\* user with sufficient permission goes to its dismissal whatever the
\* readiness check and the conversations check say
C39_DismissalOnlyAfterAuthorization ==
    /\ [](pc = "fetchPullRequestData" =>
             /\ actor.authorAssociation \in {"OWNER", "MEMBER", "COLLABORATOR"}
             /\ actor.permission \in {"admin", "maintain", "write"})
    /\ [](fetches = 0 => pc # "dismissReview" /\ lastCall # "dismissReview")
    /\ []((pc = "dismissReview" \/ lastCall = "dismissReview") =>
             /\ fetches >= 1
             /\ ~ForkPr
             /\ ~prData.isFork
             /\ ~prData.merged
             /\ Len(prStateChecks) = 1)
    /\ [](pc = "dismissReview" => fetches = 1 /\ ~host.merged /\ checks = << >>)
    /\ [][(pc = "review" /\ ~Fresh(review) /\ ByAnotherUser(review)
             /\ PermittedReviewer(review)) => pc' = "dismissReview"]_vars

\* C39: a stale approval was dismissed for a closed PR with an unresolved
\* conversation, and the invocation is failing at the check gate
C39_Witness ==
    /\ pc = "postComment"
    /\ comment = [heading |-> "Merge checks failed", detail |-> "",
                  returns |-> Result("failed", "Merge checks failed")]
    /\ lastCall = "dismissReview"
    /\ dismissFailures = << >>
    /\ prData.state = "closed"
    /\ ~prStateChecks[1].passed
    /\ ~threadsCheck.passed

-----------------------------------------------------------------------------
(* The comments of an invocation *)

\* The comments that end an invocation which has passed the gate
AfterPassed ==
    {"New commits detected", "Mergeability status pending", "Conflicts detected",
     "Cannot merge", "Merge failed", "Merged by nylbot-merge"}

\* The place of a comment in an invocation: the stale-dismissal warning, the
\* checks comment, a terminal comment
Place(heading) ==
    IF heading = StaleHeading THEN 1
    ELSE IF heading \in {"Merge checks passed", "Merge checks failed"} THEN 2
    ELSE 3

\* C40: the comments posted by an invocation are at most one stale-dismissal
\* warning, then at most one checks comment, then at most one terminal comment,
\* so at most three; 'Merge checks failed' is followed by no comment; a comment
\* on new commits, on mergeability, on a failed merge or on the merge directly
\* follows 'Merge checks passed'; and in an invocation that has returned,
\* 'Merge checks passed' is followed by exactly one of these
C40_CommentsInOrder ==
    /\ Len(comments) <= 3
    /\ \A i \in 1..Len(comments) : comments[i] \in Headings
    /\ \A i, j \in 1..Len(comments) : i < j => Place(comments[i]) < Place(comments[j])
    /\ \A i \in 1..Len(comments) :
          /\ comments[i] = "Merge checks failed" => i = Len(comments)
          /\ comments[i] \in AfterPassed =>
                i > 1 /\ comments[i - 1] = "Merge checks passed"
          /\ (pc = "done" /\ comments[i] = "Merge checks passed") =>
                /\ i + 1 = Len(comments)
                /\ comments[i + 1] \in AfterPassed

\* C40: an invocation has returned after three comments: the warning, the
\* passed checks and the new commits
C40_Witness ==
    /\ pc = "done"
    /\ comments = << StaleHeading, "Merge checks passed", "New commits detected" >>

=============================================================================
